---- MODULE Spec2Model ----
(***************************************************************************)
(* Model of the quiz bot of src/simple_bot.py: the question store, the     *)
(* user statistics store, the per-user conversations registered in main(), *)
(* the poll import flow, the button callbacks and the marathon delivery.   *)
(*                                                                         *)
(* Representation.  A text is the sequence of its lines (what              *)
(* text.split('\n') returns) and a line is the sequence of its characters. *)
(* Python's None and a missing dictionary key are both written None, the   *)
(* empty sequence; a value that may be a record is wrapped in a sequence   *)
(* of length 0 or 1.  The sample texts of load_questions are abbreviated   *)
(* to one character per word.                                              *)
(***************************************************************************)
EXTENDS Integers, Sequences, FiniteSets, TLC

VARIABLES
    questions_file,  \* data/questions.json: <<>> while the file does not exist, else <<content>>
    users_file,      \* data/users.json: user id string -> <<>> (no record) or <<[name, correct, total]>>
    user_data,       \* context.user_data of each user
    add_conv,        \* state of add_quiz_conv for each user
    clone_conv,      \* state of clone_quiz_conv for each user
    edit_conv,       \* state of edit_quiz_conv for each user
    offered,         \* size of the largest option keyboard of each kind shown to each user
    sent,            \* polls sent to each user's chat by the most recent play command
    task,            \* the play handler suspended in schedule_next_question, if any:
                     \* its user, its requested_id and where it stands
    last             \* the update handled last: handler, user, outcome

vars == <<questions_file, users_file, user_data, add_conv, clone_conv, edit_conv,
          offered, sent, task, last>>

----------------------------------------------------------------------------
(* Bounds of the exploration.                                              *)

MaxStore == 3        \* no insert once the store holds this many questions
MaxAnswers == 2      \* no poll answer is graded once a user's total reaches this

----------------------------------------------------------------------------
(* Values.                                                                 *)

None == <<>>
Some(x) == <<x>>

Val(o) == o[1]

\* Telegram user ids; every chat is the user's private chat with the bot.
Users == {101, 102}

\* Conversation states, simple_bot.py:26-28.  END is ConversationHandler.END:
\* a handler that returns it leaves the conversation, so END also stands for
\* "no conversation of this handler for the user".
QUESTION == 0
OPTIONS == 1
ANSWER == 2
EDIT_SELECT == 3
EDIT_QUESTION == 4
EDIT_OPTIONS == 5
EDIT_ANSWER == 6
CLONE_URL == 7
END == -1

Whitespace == {" "}
Digits == {"0", "1", "2", "3", "4", "5", "6", "7", "8", "9"}

\* One line made of the characters of a word.
L(c) == <<c>>

SampleQuestions ==
    << [id |-> 1, question |-> <<L("F")>>,
        options |-> <<L("B"), L("M"), L("P"), L("R")>>,
        answer |-> 2, category |-> "Geography"],
       [id |-> 2, question |-> <<L("R")>>,
        options |-> <<L("V"), L("M"), L("J"), L("S")>>,
        answer |-> 1, category |-> "Science"] >>

----------------------------------------------------------------------------
(* String functions of Python used by the handlers.                        *)

RECURSIVE lstrip(_)
lstrip(s) ==
    IF s # <<>> /\ Head(s) \in Whitespace THEN lstrip(Tail(s)) ELSE s

RECURSIVE rstrip(_)
rstrip(s) ==
    IF s # <<>> /\ s[Len(s)] \in Whitespace THEN rstrip(SubSeq(s, 1, Len(s) - 1)) ELSE s

\* str.strip()
strip(s) == rstrip(lstrip(s))

DigitValue(c) ==
    CASE c = "0" -> 0 [] c = "1" -> 1 [] c = "2" -> 2 [] c = "3" -> 3 [] c = "4" -> 4
      [] c = "5" -> 5 [] c = "6" -> 6 [] c = "7" -> 7 [] c = "8" -> 8 [] c = "9" -> 9

RECURSIVE DecimalValue(_)
DecimalValue(s) ==
    IF s = <<>> THEN 0
    ELSE 10 * DecimalValue(SubSeq(s, 1, Len(s) - 1)) + DigitValue(s[Len(s)])

AllDigits(s) == s # <<>> /\ \A i \in 1..Len(s) : s[i] \in Digits

\* int(s): surrounding whitespace is ignored, one sign is allowed, the rest
\* must be decimal digits; anything else raises ValueError.
IntOk(s) ==
    LET t == strip(s) IN
        IF t # <<>> /\ Head(t) \in {"-", "+"} THEN AllDigits(Tail(t)) ELSE AllDigits(t)

IntVal(s) ==
    LET t == strip(s) IN
        IF Head(t) = "-" THEN 0 - DecimalValue(Tail(t))
        ELSE IF Head(t) = "+" THEN DecimalValue(Tail(t))
        ELSE DecimalValue(t)

DigitChar(d) ==
    CASE d = 0 -> "0" [] d = 1 -> "1" [] d = 2 -> "2" [] d = 3 -> "3" [] d = 4 -> "4"
      [] d = 5 -> "5" [] d = 6 -> "6" [] d = 7 -> "7" [] d = 8 -> "8" [] d = 9 -> "9"

RECURSIVE Decimal(_)
Decimal(n) == IF n < 10 THEN <<DigitChar(n)>> ELSE Decimal(n \div 10) \o <<DigitChar(n % 10)>>

\* str(n) of an integer, as formatted into callback data by an f-string.
IntStr(n) == IF n < 0 THEN <<"-">> \o Decimal(0 - n) ELSE Decimal(n)

\* A variant of ParseOptions that keeps the blank lines.
ParseOptionsKeepingBlank(lines) == [i \in 1..Len(lines) |-> strip(lines[i])]

\* [opt.strip() for opt in text.split('\n') if opt.strip()]
RECURSIVE ParseOptions(_)
ParseOptions(lines) ==
    IF lines = <<>> THEN <<>>
    ELSE IF strip(Head(lines)) # <<>>
         THEN <<strip(Head(lines))>> \o ParseOptions(Tail(lines))
         ELSE ParseOptions(Tail(lines))

\* The lines of a text without its blank leading and trailing lines.
RECURSIVE DropBlankHead(_)
DropBlankHead(text) ==
    IF text # <<>> /\ strip(Head(text)) = <<>> THEN DropBlankHead(Tail(text)) ELSE text

RECURSIVE DropBlankLast(_)
DropBlankLast(text) ==
    IF text # <<>> /\ strip(text[Len(text)]) = <<>>
    THEN DropBlankLast(SubSeq(text, 1, Len(text) - 1))
    ELSE text

StripText(text) == DropBlankLast(DropBlankHead(text))

----------------------------------------------------------------------------
(* The question store.                                                     *)

\* The content load_questions returns: the samples when the file is missing.
load_questions(file) == IF file = None THEN SampleQuestions ELSE file[1]

\* A variant of save_questions that writes, of the questions of one id, the
\* first only.
save_questions_unique(questions) ==
    LET first == {i \in DOMAIN questions :
                     \A j \in 1..(i - 1) : questions[j].id # questions[i].id}
        RECURSIVE Pick(_)
        Pick(i) == IF i > Len(questions) THEN <<>>
                   ELSE IF i \in first THEN <<questions[i]>> \o Pick(i + 1)
                   ELSE Pick(i + 1)
    IN  Some(Pick(1))

\* The file after save_questions(questions).
save_questions(questions) == Some(questions)

\* A variant of Touch that writes the samples whether the file exists or not.
TouchResetting(file) == save_questions(SampleQuestions)

\* The file after a call of load_questions: a missing file is created with
\* the samples (simple_bot.py:66), an existing one is left as it is.
Touch(file) == save_questions(load_questions(file))

\* A variant of MaxId that takes the id of the last question.
MaxIdOfLast(questions) == questions[Len(questions)].id

RECURSIVE MaxId(_)
MaxId(questions) ==
    IF Len(questions) = 1 THEN questions[1].id
    ELSE LET m == MaxId(Tail(questions)) IN
             IF questions[1].id > m THEN questions[1].id ELSE m

\* A variant of get_next_question_id that counts the questions.
get_next_question_id_counting(file) == Len(load_questions(file)) + 1

\* A variant of get_next_question_id that returns the largest id in use.
get_next_question_id_reusing(file) ==
    LET questions == load_questions(file) IN
        IF questions = <<>> THEN 1 ELSE MaxId(questions)

get_next_question_id(file) ==
    LET questions == load_questions(file) IN
        IF questions = <<>> THEN 1 ELSE MaxId(questions) + 1

\* A variant of FirstWithId that falls back to the first question of the
\* store when none has the id.
FirstWithIdOrFirst(questions, question_id) ==
    LET with_id == {i \in DOMAIN questions : questions[i].id = question_id} IN
        IF questions = <<>> THEN None
        ELSE IF with_id = {} THEN Some(questions[1])
        ELSE Some(questions[CHOOSE i \in with_id : \A j \in with_id : i <= j])

\* The first question with the id, wrapped; None when there is none.
RECURSIVE FirstWithId(_, _)
FirstWithId(questions, question_id) ==
    IF questions = <<>> THEN None
    ELSE IF Head(questions).id = question_id THEN Some(Head(questions))
    ELSE FirstWithId(Tail(questions), question_id)

\* A variant of get_question_by_id that does not look at the last question.
get_question_by_id_skipping_last(file, question_id) ==
    LET questions == load_questions(file) IN
        FirstWithId(SubSeq(questions, 1, Len(questions) - 1), question_id)

get_question_by_id(file, question_id) == FirstWithId(load_questions(file), question_id)

RECURSIVE SelectQuestions(_, _, _)
SelectQuestions(questions, question_id, keep) ==
    IF questions = <<>> THEN <<>>
    ELSE IF (Head(questions).id = question_id) = keep
         THEN <<Head(questions)>> \o SelectQuestions(Tail(questions), question_id, keep)
         ELSE SelectQuestions(Tail(questions), question_id, keep)

\* [q for q in questions if q.get("id") == requested_id]
Matching(questions, question_id) == SelectQuestions(questions, question_id, TRUE)

\* A variant of delete_question_by_id that drops only the first question with
\* the id.
delete_first_by_id(file, question_id) ==
    LET questions == load_questions(file)
        at == CHOOSE i \in 1..(Len(questions) + 1) :
                  /\ i <= Len(questions) => questions[i].id = question_id
                  /\ \A j \in 1..(i - 1) : questions[j].id # question_id
        updated_questions == SubSeq(questions, 1, at - 1)
                                 \o SubSeq(questions, at + 1, Len(questions))
    IN  IF Len(updated_questions) < Len(questions)
        THEN [file |-> save_questions(updated_questions), ok |-> TRUE]
        ELSE [file |-> Touch(file), ok |-> FALSE]

\* A variant of delete_question_by_id that writes the remaining questions in
\* the reverse order.
delete_question_by_id_reversing(file, question_id) ==
    LET questions == load_questions(file)
        kept == SelectQuestions(questions, question_id, FALSE)
        updated_questions == [i \in 1..Len(kept) |-> kept[Len(kept) + 1 - i]]
    IN  IF Len(updated_questions) < Len(questions)
        THEN [file |-> save_questions(updated_questions), ok |-> TRUE]
        ELSE [file |-> Touch(file), ok |-> FALSE]

\* The file after delete_question_by_id, and its return value.
delete_question_by_id(file, question_id) ==
    LET questions == load_questions(file)
        updated_questions == SelectQuestions(questions, question_id, FALSE)
    IN  IF Len(updated_questions) < Len(questions)
        THEN [file |-> save_questions(updated_questions), ok |-> TRUE]
        ELSE [file |-> Touch(file), ok |-> FALSE]

----------------------------------------------------------------------------
(* The user statistics store.                                              *)

\* str(user_id), the key of a user in data/users.json.
UserKey(u) == ToString(u)

UserKeys == {UserKey(u) : u \in Users}

\* answer.user.name
UserName(u) == <<"@", ToString(u)>>

\* A variant of update_user_stats that counts a correct answer in correct only.
update_user_stats_uncounted(file, user_id, user_name, is_correct) ==
    LET key == UserKey(user_id)
        old == IF file[key] = None
               THEN [name |-> user_name, correct |-> 0, total |-> 0]
               ELSE Val(file[key])
        new == IF is_correct THEN [old EXCEPT !.correct = @ + 1]
               ELSE [old EXCEPT !.total = @ + 1]
    IN  [file EXCEPT ![key] = Some(new)]

\* A variant of update_user_stats that writes the record of the user alone.
update_user_stats_alone(file, user_id, user_name, is_correct) ==
    LET key == UserKey(user_id)
        old == IF file[key] = None
               THEN [name |-> user_name, correct |-> 0, total |-> 0]
               ELSE Val(file[key])
        counted == [old EXCEPT !.total = @ + 1]
        new == IF is_correct THEN [counted EXCEPT !.correct = @ + 1] ELSE counted
    IN  [k \in DOMAIN file |-> IF k = key THEN Some(new) ELSE None]

\* user_data after update_user_stats(user_id, user_name, is_correct), where
\* user_data is the content of data/users.json.
update_user_stats(file, user_id, user_name, is_correct) ==
    LET key == UserKey(user_id)
        old == IF file[key] = None
               THEN [name |-> user_name, correct |-> 0, total |-> 0]
               ELSE Val(file[key])
        counted == [old EXCEPT !.total = @ + 1]
        new == IF is_correct THEN [counted EXCEPT !.correct = @ + 1] ELSE counted
    IN  [file EXCEPT ![key] = Some(new)]

----------------------------------------------------------------------------
(* Inputs.                                                                 *)

\* Texts sent while the bot asks for a question text.
QuestionTexts == { <<L("Q")>> }

\* Texts sent while the bot asks for options: two options (one to strip),
\* three options around a blank line, and one option followed by a blank line.
OptionTexts ==
    { <<L("A"), <<" ", "B">>>>,
      <<L("A"), <<" ">>, L("B"), L("C")>>,
      <<L("A"), <<" ">>>> }

\* Texts sent while the bot asks for an id: " 1" and "x".
IdTexts == { <<<<" ", "1">>>>, <<L("x")>> }

\* The argument of /play, /edit and /remove: none, or one word.
IdArgs == { None, Some(L("1")), Some(L("9")), Some(L("x")) }

\* A link, and a text that is no Telegram link.
UrlText == << <<"https://", "t.me", "/quiz/1">> >>
CloneTexts == { UrlText, <<L("Q")>> }

\* Forwarded polls; Telegram polls have between 2 and 10 options.
Polls ==
    { [question |-> <<L("P")>>, options |-> <<L("X"), L("Y")>>],
      [question |-> <<L("P")>>, options |-> <<L("X"), L("Y"), L("Z")>>] }

\* What a fetched page can yield.
ExtractedQuiz ==
    [question |-> <<L("C")>>, options |-> <<L("A"), L("B"), L("C")>>, answer |-> 0]

\* The results parse_telegram_quiz_url(url) can return, depending on what the
\* network serves: None, or a quiz with answer 0 when the url names t.me.
parse_telegram_quiz_url(url) ==
    IF \E i \in 1..Len(url) : \E j \in 1..Len(url[i]) : url[i][j] = "t.me"
    THEN {None, Some(ExtractedQuiz)}
    ELSE {None}

----------------------------------------------------------------------------
(* The methods of parse_telegram_quiz_url, on what the network serves.  A   *)
(* string is a sequence of tokens; a token stands for a character or for a  *)
(* word that the patterns of the function look for.                         *)

\* The dictionary a method returns.
Quiz(question, options) == [question |-> <<question>>, options |-> options, answer |-> 0]

HasToken(line, tokens) == \E i \in 1..Len(line) : line[i] \in tokens

\* "t.me" in url
HasTme(url) == \E i \in 1..Len(url) : HasToken(url[i], {"t.me"})

\* re.search(r't\.me/([^/]+)/(\d+)', url): the link names a channel and a message.
MessageLinks == {"/quiz/1", "/news/1"}
ChannelMatch(url) ==
    \E i \in 1..Len(url) : \E j \in 1..(Len(url[i]) - 1) :
        url[i][j] = "t.me" /\ url[i][j + 1] \in MessageLinks

\* "rajsthangk" in url or "gk" in url.lower() or "quiz" in url.lower()
KeywordLinks == {"/quiz/1"}
LooksLikeQuizLink(url) == \E i \in 1..Len(url) : HasToken(url[i], KeywordLinks)

\* "quiz" in title.lower()
QuizWords == {"quiz", "Quiz"}

LowerCase == {"a", "b"}
UpperCase == {"A", "B", "X", "Y"}
Closers == {".", ")"}

\* re.sub of a pattern ^[class][\.\)]\s* by the empty string.
DropMarker(line, class) ==
    IF Len(line) >= 2 /\ line[1] \in class /\ line[2] \in Closers
    THEN lstrip(SubSeq(line, 3, Len(line)))
    ELSE line

RECURSIVE LeadingDigits(_)
LeadingDigits(line) ==
    IF line # <<>> /\ Head(line) \in Digits THEN 1 + LeadingDigits(Tail(line)) ELSE 0

\* re.sub(r'^\d+[\.\)]\s*', '', line)
DropNumber(line) ==
    LET n == LeadingDigits(line) IN
        IF n >= 1 /\ Len(line) > n /\ line[n + 1] \in Closers
        THEN lstrip(SubSeq(line, n + 2, Len(line)))
        ELSE line

\* text.strip().split('\n')
StripLines(text) ==
    LET t == StripText(text) IN
        IF t = <<>> THEN <<<<>>>>
        ELSE [i \in 1..Len(t) |->
                 IF Len(t) = 1 THEN strip(t[i])
                 ELSE IF i = 1 THEN lstrip(t[i])
                 ELSE IF i = Len(t) THEN rstrip(t[i])
                 ELSE t[i]]

RECURSIVE NonEmpty(_)
NonEmpty(lines) ==
    IF lines = <<>> THEN <<>>
    ELSE IF Head(lines) # <<>> THEN <<Head(lines)>> \o NonEmpty(Tail(lines))
    ELSE NonEmpty(Tail(lines))

\* description.split(',')
RECURSIVE SplitComma(_)
SplitComma(line) ==
    IF \E i \in 1..Len(line) : line[i] = ","
    THEN LET at == CHOOSE i \in 1..Len(line) :
                       line[i] = "," /\ \A j \in 1..(i - 1) : line[j] # ","
         IN  <<SubSeq(line, 1, at - 1)>> \o SplitComma(SubSeq(line, at + 1, Len(line)))
    ELSE <<line>>

\* Method 1, lines 118-194: the message the Telegram API returns for the link.
pyrogram_method(url, api) ==
    IF ~ChannelMatch(url) THEN None
    ELSE IF api.kind = "poll" THEN Some(Quiz(api.question, api.options))
    ELSE IF api.kind = "text"
    THEN LET lines == StripLines(api.text)
             options == NonEmpty([i \in 1..(Len(lines) - 1) |->
                            DropNumber(DropMarker(strip(lines[i + 1]), LowerCase))])
         IN  IF Len(lines) >= 3 /\ Len(options) >= 2
             THEN Some(Quiz(lines[1], options))
             ELSE None
    ELSE None

\* Lines 205-215: the poll markup of the fetched page.
poll_format(page) ==
    IF page.poll_question # None /\ Len(page.poll_options) >= 2
    THEN Some(Quiz(strip(Val(page.poll_question)), page.poll_options))
    ELSE None

\* Lines 229-277: the embedded view of the message.
embedded_view(embed) ==
    IF embed.status = "error" THEN None
    ELSE LET lines == IF embed.message_text = None THEN <<>>
                      ELSE ParseOptions(Val(embed.message_text))
             options == NonEmpty([i \in 1..(Len(lines) - 1) |->
                            DropMarker(lines[i + 1], LowerCase \cup UpperCase \cup Digits)])
             paragraphs == [i \in 1..Len(embed.paragraphs) |-> strip(embed.paragraphs[i])]
         IN  IF Len(lines) >= 3 /\ Len(options) >= 2
             THEN Some(Quiz(lines[1], options))
             ELSE IF /\ embed.title # None
                     /\ HasToken(Val(embed.title), QuizWords)
                     /\ Len(paragraphs) >= 2
             THEN Some(Quiz(strip(Val(embed.title)), paragraphs))
             ELSE None

\* Method 3, lines 281-308: the title and the description of the fetched page.
general_message_content(page) ==
    LET title == IF page.title = None THEN <<>> ELSE strip(Val(page.title))
        description == IF page.description = None THEN <<>> ELSE strip(Val(page.description))
        options == ParseOptions(SplitComma(description))
    IN  IF /\ title # <<>>
           /\ description # <<>>
           /\ HasToken(title, QuizWords)
           /\ Len(options) >= 2
        THEN Some(Quiz(title, options))
        ELSE None

\* The methods in the order of the source.
Methods == <<"pyrogram_method", "poll_format", "embedded_view", "general_message_content">>

\* parse_telegram_quiz_url(url) when the environment has the credentials or
\* not and the network serves api, page and embed: the methods it has entered,
\* in order, and what it returns.
quiz_extraction(in) ==
    LET Gave(tried, returned) == [tried |-> tried, returned |-> returned]
        t1 == IF in.credentials THEN <<Methods[1]>> ELSE <<>>
        r1 == IF in.credentials /\ in.api.kind # "error"
              THEN pyrogram_method(in.url, in.api) ELSE None
        t2 == t1 \o <<Methods[2]>>
        r2 == poll_format(in.page)
        gated == LooksLikeQuizLink(in.url) /\ ChannelMatch(in.url)
        t3 == IF gated THEN t2 \o <<Methods[3]>> ELSE t2
        r3 == IF gated THEN embedded_view(in.embed) ELSE None
    IN  IF in.url = <<>> \/ ~HasTme(in.url) THEN Gave(<<>>, None)
        ELSE IF r1 # None THEN Gave(t1, r1)
        ELSE IF in.page.status = "error" THEN Gave(t2, None)
        ELSE IF r2 # None THEN Gave(t2, r2)
        ELSE IF r3 # None THEN Gave(t3, r3)
        ELSE Gave(t3 \o <<Methods[4]>>, general_message_content(in.page))

\* What the Telegram API can return for a message: an error, no message, a
\* poll (Telegram polls have a question and between 2 and 10 options), a text.
ApiReply(kind, question, options, text) ==
    [kind |-> kind, question |-> question, options |-> options, text |-> text]

ApiReplies ==
    { ApiReply("error", <<>>, <<>>, <<>>),
      ApiReply("none", <<>>, <<>>, <<>>),
      ApiReply("poll", L("P"), <<L("X"), L("Y")>>, <<>>),
      ApiReply("text", <<>>, <<>>, <<L("Q"), <<"a", ")", " ", "X">>, <<"1", ".", "Y">>>>),
      ApiReply("text", <<>>, <<>>, <<L("Q"), L("X")>>) }

\* What a web server can return for the link: an error, or a page in which
\* the patterns find a poll question (one character at least), poll options,
\* a title and a description, or not.
Pages ==
    [ status : {"error"}, poll_question : {None}, poll_options : {<<>>},
      title : {None}, description : {None} ]
    \cup
    [ status : {"ok"},
      poll_question : {None, Some(L("P")), Some(L(" "))},
      poll_options : {<<>>, <<L("X"), L("Y")>>},
      title : {None, Some(<<"Quiz", " ">>), Some(L("T"))},
      description : {None, Some(<<"A", ",", " ", "B">>), Some(L("A"))} ]

\* ... and for the embedded view of the message.
Embeds ==
    [ status : {"error"}, message_text : {None}, title : {None}, paragraphs : {<<>>} ]
    \cup
    { e \in [ status : {"ok"},
              message_text : {None, Some(<<L("Q"), <<"A", ")", "X">>, <<"B", ")", "Y">>>>),
                              Some(<<L("Q"), L("X")>>)},
              title : {None, Some(L("quiz"))},
              paragraphs : {<<>>, <<L("A"), L("B")>>} ] :
          e.message_text = None => e.paragraphs = <<>> }

\* Links: to a message of a channel named quiz, to a message of another
\* channel, to no message, and a text that names no Telegram host.
Links ==
    { UrlText,
      << <<"https://", "t.me", "/news/1">> >>,
      << <<"https://", "t.me">> >>,
      <<L("Q")>> }

ExtractionInputs ==
    [ url : Links, credentials : BOOLEAN, api : ApiReplies, page : Pages, embed : Embeds ]

----------------------------------------------------------------------------
(* State.                                                                  *)

\* context.user_data after clear(): no key is present.
EmptyUserData ==
    [ quiz_question |-> None,
      quiz_options |-> None,
      clone_url |-> None,
      edit_question |-> None,
      poll_to_quiz |-> None,
      awaiting_poll_id |-> FALSE,
      quiz_correct_answer |-> None,
      marathon_questions |-> None,
      marathon_chat_id |-> None ]

\* The buttons in a user's chat.  Keyboards stay in the chat and stay
\* pressable whatever happens to the draft; of the option keyboards
\* (answer_<i>, polltoquiz_<i>, editanswer_<i>) the largest size shown is
\* kept, of the keyboards naming questions (edit_<id>, remove_<id>,
\* confirm_remove_<id>) the ids shown.
NoButtons ==
    [ answer |-> 0, polltoquiz |-> 0, editanswer |-> 0,
      pollid |-> FALSE, edit_menu |-> FALSE,
      edit_ids |-> {}, remove_ids |-> {}, confirm_ids |-> {} ]

Max(a, b) == IF a > b THEN a ELSE b

\* The keyboards a user has seen, after one more option keyboard of n buttons.
Offer(u, kind, n) == [offered EXCEPT ![u][kind] = Max(@, n)]

\* ... after one more keyboard naming the questions ids.
OfferIds(u, kind, ids) == [offered EXCEPT ![u][kind] = @ \cup ids]

\* ... after a keyboard of fixed buttons.
OfferMenu(u, kind) == [offered EXCEPT ![u][kind] = TRUE]

Handled(handler, u, result) == [handler |-> handler, user |-> u, result |-> result]

Init ==
    /\ questions_file = None
    /\ users_file = [k \in UserKeys |-> None]
    /\ user_data = [u \in Users |-> EmptyUserData]
    /\ add_conv = [u \in Users |-> END]
    /\ clone_conv = [u \in Users |-> END]
    /\ edit_conv = [u \in Users |-> END]
    /\ offered = [u \in Users |-> NoButtons]
    /\ sent = [u \in Users |-> <<>>]
    /\ task = None
    /\ last = Handled("start", 0, "ok")

\* A dispatcher that hands an update to its handler while the handler of an
\* earlier update is suspended.
DispatcherConcurrent == TRUE

\* Application.builder().token(BOT_TOKEN).build() leaves concurrent_updates
\* off and every handler blocking: the next update is fetched only when the
\* handler of the previous one has returned.
DispatcherFree == task = None

\* Is the conversation handler for the user in one of its states?
Active(conv, u) == conv[u] # END

----------------------------------------------------------------------------
(* Create flow: add_quiz_conv.                                             *)

\* /add while the user is not in add_quiz_conv.
add_quiz(u) ==
    /\ DispatcherFree
    /\ add_conv[u] = END
    /\ add_conv' = [add_conv EXCEPT ![u] = QUESTION]
    /\ last' = Handled("add_quiz", u, "prompt")
    /\ UNCHANGED <<questions_file, users_file, user_data, clone_conv, edit_conv,
                   offered, sent, task>>

\* A text in state QUESTION of add_quiz_conv.
get_question(u, text) ==
    /\ DispatcherFree
    /\ add_conv[u] = QUESTION
    /\ user_data' = [user_data EXCEPT ![u].quiz_question = text]
    /\ add_conv' = [add_conv EXCEPT ![u] = OPTIONS]
    /\ last' = Handled("get_question", u, "prompt")
    /\ UNCHANGED <<questions_file, users_file, clone_conv, edit_conv, offered, sent, task>>

\* A text in state OPTIONS of add_quiz_conv.
get_options(u, text) ==
    LET options == ParseOptions(text) IN
    /\ DispatcherFree
    /\ add_conv[u] = OPTIONS
    /\ IF Len(options) < 2
       THEN /\ last' = Handled("get_options", u, "too_few_options")
            /\ UNCHANGED <<user_data, add_conv, offered>>
       ELSE /\ user_data' = [user_data EXCEPT ![u].quiz_options = options]
            /\ add_conv' = [add_conv EXCEPT ![u] = ANSWER]
            /\ offered' = Offer(u, "answer", Len(options))
            /\ last' = Handled("get_options", u, "prompt")
    /\ UNCHANGED <<questions_file, users_file, clone_conv, edit_conv, sent, task>>

\* A variant of NewQuestion that keeps the answer of the extraction.
NewQuestionDefaultAnswer(file, ud, answer_idx) ==
    [ id |-> get_next_question_id(file),
      question |-> ud.quiz_question,
      options |-> ud.quiz_options,
      answer |-> 0,
      category |-> "User Created" ]

\* The record get_answer builds from the draft.
NewQuestion(file, ud, answer_idx) ==
    [ id |-> get_next_question_id(file),
      question |-> ud.quiz_question,
      options |-> ud.quiz_options,
      answer |-> answer_idx,
      category |-> "User Created" ]

\* options[answer_idx] in the confirmation message raises IndexError, or
\* TypeError when options is None.
Subscriptable(options, idx) == options # None /\ idx < Len(options)

\* A press of button answer_<answer_idx> in state ANSWER of add_quiz_conv
\* (in_add) or else of clone_quiz_conv.
get_answer(u, answer_idx) ==
    LET in_add == add_conv[u] = ANSWER
        ud == user_data[u]
        questions == load_questions(questions_file)
        new_question == NewQuestion(questions_file, ud, answer_idx)
    IN
    /\ DispatcherFree
    /\ in_add \/ clone_conv[u] = ANSWER
    /\ answer_idx \in 0..(offered[u].answer - 1)
    /\ Len(questions) < MaxStore
    /\ questions_file' = save_questions(Append(questions, new_question))
    /\ IF Subscriptable(ud.quiz_options, answer_idx)
       THEN /\ user_data' = [user_data EXCEPT ![u] = EmptyUserData]
            /\ add_conv' = IF in_add THEN [add_conv EXCEPT ![u] = END] ELSE add_conv
            /\ clone_conv' = IF in_add THEN clone_conv ELSE [clone_conv EXCEPT ![u] = END]
            /\ last' = Handled("get_answer", u, "created")
       ELSE /\ last' = Handled("get_answer", u, "exception")
            /\ UNCHANGED <<user_data, add_conv, clone_conv>>
    /\ UNCHANGED <<users_file, edit_conv, offered, sent, task>>

\* A /cancel that clears the session data of every user.
cancel_everyone(u) ==
    /\ DispatcherFree
    /\ IF Active(add_conv, u)
       THEN /\ add_conv' = [add_conv EXCEPT ![u] = END]
            /\ UNCHANGED <<clone_conv, edit_conv>>
       ELSE IF Active(clone_conv, u)
       THEN /\ clone_conv' = [clone_conv EXCEPT ![u] = END]
            /\ UNCHANGED <<add_conv, edit_conv>>
       ELSE IF Active(edit_conv, u)
       THEN /\ edit_conv' = [edit_conv EXCEPT ![u] = END]
            /\ UNCHANGED <<add_conv, clone_conv>>
       ELSE UNCHANGED <<add_conv, clone_conv, edit_conv>>
    /\ IF Active(add_conv, u) \/ Active(clone_conv, u) \/ Active(edit_conv, u)
       THEN /\ user_data' = [v \in Users |-> EmptyUserData]
            /\ last' = Handled("cancel", u, "cancelled")
       ELSE /\ last' = Handled("cancel", u, "unhandled")
            /\ UNCHANGED user_data
    /\ UNCHANGED <<questions_file, users_file, offered, sent, task>>

\* /cancel: the fallback of the first conversation handler, in the order of
\* registration, that has a conversation for the user; no handler otherwise.
cancel(u) ==
    /\ DispatcherFree
    /\ IF Active(add_conv, u)
       THEN /\ add_conv' = [add_conv EXCEPT ![u] = END]
            /\ UNCHANGED <<clone_conv, edit_conv>>
       ELSE IF Active(clone_conv, u)
       THEN /\ clone_conv' = [clone_conv EXCEPT ![u] = END]
            /\ UNCHANGED <<add_conv, edit_conv>>
       ELSE IF Active(edit_conv, u)
       THEN /\ edit_conv' = [edit_conv EXCEPT ![u] = END]
            /\ UNCHANGED <<add_conv, clone_conv>>
       ELSE UNCHANGED <<add_conv, clone_conv, edit_conv>>
    /\ IF Active(add_conv, u) \/ Active(clone_conv, u) \/ Active(edit_conv, u)
       THEN /\ user_data' = [user_data EXCEPT ![u] = EmptyUserData]
            /\ last' = Handled("cancel", u, "cancelled")
       ELSE /\ last' = Handled("cancel", u, "unhandled")
            /\ UNCHANGED user_data
    /\ UNCHANGED <<questions_file, users_file, offered, sent, task>>


----------------------------------------------------------------------------
(* Clone flow: clone_quiz_conv.                                            *)

\* handle_quiz_url (the later definition, line 743) run for the user; the
\* state it returns is stored for clone_quiz_conv even though QUESTION is
\* none of that handler's states.
handle_quiz_url(u, url) ==
    \E quiz_data \in parse_telegram_quiz_url(url) :
        /\ IF quiz_data = None
           THEN /\ user_data' = [user_data EXCEPT ![u].clone_url = url]
                /\ clone_conv' = [clone_conv EXCEPT ![u] = QUESTION]
                /\ last' = Handled("handle_quiz_url", u, "manual")
                /\ UNCHANGED offered
           ELSE /\ user_data' = [user_data EXCEPT
                                    ![u].quiz_question = Val(quiz_data).question,
                                    ![u].quiz_options = Val(quiz_data).options]
                /\ clone_conv' = [clone_conv EXCEPT ![u] = ANSWER]
                /\ offered' = Offer(u, "answer", Len(Val(quiz_data).options))
                /\ last' = Handled("handle_quiz_url", u, "prompt")
        /\ UNCHANGED <<questions_file, users_file, add_conv, edit_conv, sent, task>>

\* command_args[0].startswith('http')
StartsWithHttp(word) == word # <<>> /\ Head(word) \in {"http://", "https://"}

\* /clone [url] while the user is not in clone_quiz_conv.
clone_quiz(u, arg) ==
    /\ DispatcherFree
    /\ clone_conv[u] = END
    /\ IF arg # None /\ StartsWithHttp(Val(arg))
       THEN handle_quiz_url(u, <<Val(arg)>>)
       ELSE /\ clone_conv' = [clone_conv EXCEPT ![u] = CLONE_URL]
            /\ last' = Handled("clone_quiz", u, "prompt")
            /\ UNCHANGED <<questions_file, users_file, user_data, add_conv, edit_conv,
                           offered, sent, task>>

\* A text in state CLONE_URL of clone_quiz_conv, when add_quiz_conv, which is
\* registered first, does not take it.
clone_url_text(u, text) ==
    /\ DispatcherFree
    /\ add_conv[u] \notin {QUESTION, OPTIONS}
    /\ clone_conv[u] = CLONE_URL
    /\ handle_quiz_url(u, text)

----------------------------------------------------------------------------
(* Poll import: handle_message, handle_poll_to_quiz, handle_poll_id_selection *)
(* (the last definition of each, lines 1866, 1971 and 2003).               *)

\* message.text.strip() followed by int(): the text without its blank
\* leading and trailing lines must be one line that int() accepts.
TextIntOk(text) == Len(StripText(text)) = 1 /\ IntOk(StripText(text)[1])

TextIntVal(text) == IntVal(StripText(text)[1])

\* Does a text or a forwarded poll reach handle_message?  The conversation
\* handlers are registered before it and take a text in their text states.
ReachesHandleMessage(u) ==
    /\ add_conv[u] \notin {QUESTION, OPTIONS}
    /\ clone_conv[u] # CLONE_URL
    /\ edit_conv[u] \notin {EDIT_QUESTION, EDIT_OPTIONS}

\* A variant of PollQuestion that takes the first option as the answer.
PollQuestionFirstOption(poll_data, question_id) ==
    [ id |-> question_id,
      question |-> poll_data.question,
      options |-> poll_data.options,
      answer |-> 0,
      category |-> "Converted Poll" ]

PollQuestion(poll_data, question_id) ==
    [ id |-> question_id,
      question |-> poll_data.question,
      options |-> poll_data.options,
      answer |-> Val(poll_data.selected_answer),
      category |-> "Converted Poll" ]

\* A variant of handle_message_text that stops waiting for an id when the text
\* is no number.
handle_message_text_giving_up(u, text) ==
    LET ud == user_data[u]
        questions == load_questions(questions_file)
    IN
    /\ DispatcherFree
    /\ ReachesHandleMessage(u)
    /\ IF ~ud.awaiting_poll_id
       THEN /\ last' = Handled("handle_message", u, "help")
            /\ UNCHANGED <<questions_file, user_data>>
       ELSE IF ud.poll_to_quiz = None
       THEN /\ user_data' = [user_data EXCEPT ![u].awaiting_poll_id = FALSE]
            /\ last' = Handled("handle_message", u, "no_poll_data")
            /\ UNCHANGED questions_file
       ELSE IF ~TextIntOk(text)
       THEN /\ user_data' = [user_data EXCEPT ![u].awaiting_poll_id = FALSE]
            /\ last' = Handled("handle_message", u, "invalid_id")
            /\ UNCHANGED questions_file
       ELSE IF Val(ud.poll_to_quiz).selected_answer = None
       THEN /\ last' = Handled("handle_message", u, "exception")
            /\ UNCHANGED <<questions_file, user_data>>
       ELSE /\ Len(questions) < MaxStore
            /\ questions_file' = save_questions(
                   Append(questions, PollQuestion(Val(ud.poll_to_quiz), TextIntVal(text))))
            /\ user_data' = [user_data EXCEPT ![u].poll_to_quiz = None,
                                              ![u].awaiting_poll_id = FALSE]
            /\ last' = Handled("handle_message", u, "imported")
    /\ UNCHANGED <<users_file, add_conv, clone_conv, edit_conv, offered, sent, task>>

\* A text that reaches handle_message.
handle_message_text(u, text) ==
    LET ud == user_data[u]
        questions == load_questions(questions_file)
    IN
    /\ DispatcherFree
    /\ ReachesHandleMessage(u)
    /\ IF ~ud.awaiting_poll_id
       THEN /\ last' = Handled("handle_message", u, "help")
            /\ UNCHANGED <<questions_file, user_data>>
       ELSE IF ud.poll_to_quiz = None
       THEN /\ user_data' = [user_data EXCEPT ![u].awaiting_poll_id = FALSE]
            /\ last' = Handled("handle_message", u, "no_poll_data")
            /\ UNCHANGED questions_file
       ELSE IF ~TextIntOk(text)
       THEN /\ last' = Handled("handle_message", u, "invalid_id")
            /\ UNCHANGED <<questions_file, user_data>>
       ELSE IF Val(ud.poll_to_quiz).selected_answer = None
       THEN \* KeyError: 'selected_answer'
            /\ last' = Handled("handle_message", u, "exception")
            /\ UNCHANGED <<questions_file, user_data>>
       ELSE /\ Len(questions) < MaxStore
            /\ questions_file' = save_questions(
                   Append(questions, PollQuestion(Val(ud.poll_to_quiz), TextIntVal(text))))
            /\ user_data' = [user_data EXCEPT ![u].poll_to_quiz = None,
                                              ![u].awaiting_poll_id = FALSE]
            /\ last' = Handled("handle_message", u, "imported")
    /\ UNCHANGED <<users_file, add_conv, clone_conv, edit_conv, offered, sent, task>>

\* A forwarded poll: it has no text, so no conversation handler takes it.
handle_message_poll(u, poll) ==
    /\ DispatcherFree
    /\ IF user_data[u].awaiting_poll_id
       THEN \* message.text is None: AttributeError at message.text.strip()
            /\ last' = Handled("handle_message", u, "exception")
            /\ UNCHANGED <<user_data, offered>>
       ELSE /\ user_data' = [user_data EXCEPT ![u].poll_to_quiz =
                   Some([question |-> poll.question, options |-> poll.options,
                         selected_answer |-> None])]
            /\ offered' = Offer(u, "polltoquiz", Len(poll.options))
            /\ last' = Handled("handle_message", u, "poll_received")
    /\ UNCHANGED <<questions_file, users_file, add_conv, clone_conv, edit_conv, sent, task>>

\* A press of button polltoquiz_<option_id>.
handle_poll_to_quiz(u, option_id) ==
    LET ud == user_data[u] IN
    /\ DispatcherFree
    /\ option_id \in 0..(offered[u].polltoquiz - 1)
    /\ IF ud.poll_to_quiz = None
       THEN /\ last' = Handled("handle_poll_to_quiz", u, "no_poll_data")
            /\ UNCHANGED <<questions_file, user_data, offered>>
       ELSE /\ user_data' = [user_data EXCEPT ![u].poll_to_quiz =
                   Some([Val(ud.poll_to_quiz) EXCEPT !.selected_answer = Some(option_id)])]
            /\ questions_file' = Touch(questions_file)
            /\ offered' = OfferMenu(u, "pollid")
            /\ last' = Handled("handle_poll_to_quiz", u, "ask_id")
    /\ UNCHANGED <<users_file, add_conv, clone_conv, edit_conv, sent, task>>

\* A press of button pollid_auto or pollid_custom.
handle_poll_id_selection(u, choice) ==
    LET ud == user_data[u]
        questions == load_questions(questions_file)
    IN
    /\ DispatcherFree
    /\ offered[u].pollid
    /\ IF ud.poll_to_quiz = None
       THEN /\ last' = Handled("handle_poll_id_selection", u, "no_poll_data")
            /\ UNCHANGED <<questions_file, user_data>>
       ELSE IF choice = "custom"
       THEN /\ user_data' = [user_data EXCEPT ![u].awaiting_poll_id = TRUE]
            /\ last' = Handled("handle_poll_id_selection", u, "ask_custom_id")
            /\ UNCHANGED questions_file
       ELSE IF Val(ud.poll_to_quiz).selected_answer = None
       THEN \* KeyError: 'selected_answer', after get_next_question_id()
            /\ questions_file' = Touch(questions_file)
            /\ last' = Handled("handle_poll_id_selection", u, "exception")
            /\ UNCHANGED user_data
       ELSE /\ Len(questions) < MaxStore
            /\ questions_file' = save_questions(
                   Append(questions, PollQuestion(Val(ud.poll_to_quiz),
                                                  get_next_question_id(questions_file))))
            /\ user_data' = [user_data EXCEPT ![u].poll_to_quiz = None]
            /\ last' = Handled("handle_poll_id_selection", u, "imported")
    /\ UNCHANGED <<users_file, add_conv, clone_conv, edit_conv, offered, sent, task>>


----------------------------------------------------------------------------
(* Edit and remove: edit_quiz_conv, remove_quiz and button_callback.       *)

IdsOf(questions) == {questions[i].id : i \in 1..Len(questions)}

\* questions[:10]
FirstTen(questions) == SubSeq(questions, 1, IF Len(questions) < 10 THEN Len(questions) ELSE 10)

\* q['question'][:30] raises TypeError when the question text is None.
Listable(questions) == \A i \in 1..Len(questions) : questions[i].question # None

\* The id a button carries: formatted by an f-string, read back with int().
CallbackId(question_id) == IntVal(IntStr(question_id))

\* /edit [id] while the user is not in edit_quiz_conv.
edit_quiz(u, arg) ==
    LET questions == load_questions(questions_file)
        question == get_question_by_id(questions_file, IntVal(Val(arg)))
    IN
    /\ DispatcherFree
    /\ edit_conv[u] = END
    /\ questions_file' = Touch(questions_file)
    /\ IF arg = None
       THEN IF questions = <<>>
            THEN /\ last' = Handled("edit_quiz", u, "none_available")
                 /\ UNCHANGED <<user_data, edit_conv, offered>>
            ELSE IF ~Listable(FirstTen(questions))
            THEN /\ last' = Handled("edit_quiz", u, "exception")
                 /\ UNCHANGED <<user_data, edit_conv, offered>>
            ELSE /\ offered' = OfferIds(u, "edit_ids", IdsOf(FirstTen(questions)))
                 /\ edit_conv' = [edit_conv EXCEPT ![u] = EDIT_SELECT]
                 /\ last' = Handled("edit_quiz", u, "select")
                 /\ UNCHANGED user_data
       ELSE IF ~IntOk(Val(arg))
            THEN /\ last' = Handled("edit_quiz", u, "invalid_id")
                 /\ UNCHANGED <<user_data, edit_conv, offered>>
            ELSE IF question = None
            THEN /\ last' = Handled("edit_quiz", u, "not_found")
                 /\ UNCHANGED <<user_data, edit_conv, offered>>
            ELSE /\ user_data' = [user_data EXCEPT ![u].edit_question = question]
                 /\ IF Subscriptable(Val(question).options, Val(question).answer)
                    THEN /\ offered' = OfferMenu(u, "edit_menu")
                         /\ edit_conv' = [edit_conv EXCEPT ![u] = EDIT_SELECT]
                         /\ last' = Handled("edit_quiz", u, "menu")
                    ELSE /\ last' = Handled("edit_quiz", u, "exception")
                         /\ UNCHANGED <<edit_conv, offered>>
    /\ UNCHANGED <<users_file, add_conv, clone_conv, sent, task>>

\* A press of a button whose data starts with edit_ in state EDIT_SELECT of
\* edit_quiz_conv: the handler registered there is lambda u, c: None.
edit_select_lambda(u) ==
    /\ DispatcherFree
    /\ edit_conv[u] = EDIT_SELECT
    /\ offered[u].edit_menu \/ offered[u].edit_ids # {}
    /\ last' = Handled("lambda", u, "ignored")
    /\ UNCHANGED <<questions_file, users_file, user_data, add_conv, clone_conv, edit_conv,
                   offered, sent, task>>

\* /remove [id]
remove_quiz(u, arg) ==
    LET questions == load_questions(questions_file)
        question == get_question_by_id(questions_file, IntVal(Val(arg)))
    IN
    /\ DispatcherFree
    /\ questions_file' = Touch(questions_file)
    /\ IF arg = None
       THEN IF questions = <<>>
            THEN /\ last' = Handled("remove_quiz", u, "none_available")
                 /\ UNCHANGED offered
            ELSE IF ~Listable(FirstTen(questions))
            THEN /\ last' = Handled("remove_quiz", u, "exception")
                 /\ UNCHANGED offered
            ELSE /\ offered' = OfferIds(u, "remove_ids", IdsOf(FirstTen(questions)))
                 /\ last' = Handled("remove_quiz", u, "select")
       ELSE IF ~IntOk(Val(arg))
            THEN /\ last' = Handled("remove_quiz", u, "invalid_id")
                 /\ UNCHANGED offered
            ELSE IF question = None
            THEN /\ last' = Handled("remove_quiz", u, "not_found")
                 /\ UNCHANGED offered
            ELSE /\ offered' = OfferIds(u, "confirm_ids", {Val(question).id})
                 /\ last' = Handled("remove_quiz", u, "confirm")
    /\ UNCHANGED <<users_file, user_data, add_conv, clone_conv, edit_conv, sent, task>>

\* A variant of cancel_remove that removes a question whose removal is to be
\* confirmed.
cancel_remove_deleting(u) ==
    LET question_id == CHOOSE id \in offered[u].confirm_ids : TRUE IN
    /\ DispatcherFree
    /\ offered[u].confirm_ids # {}
    /\ questions_file' = delete_question_by_id(questions_file, question_id).file
    /\ last' = Handled("button_callback", u, "kept")
    /\ UNCHANGED <<users_file, user_data, add_conv, clone_conv, edit_conv,
                   offered, sent, task>>

\* button_callback, data cancel_remove.
cancel_remove(u) ==
    /\ DispatcherFree
    /\ offered[u].confirm_ids # {}
    /\ last' = Handled("button_callback", u, "kept")
    /\ UNCHANGED <<questions_file, users_file, user_data, add_conv, clone_conv, edit_conv,
                   offered, sent, task>>

\* button_callback, data confirm_remove_<id>.
confirm_remove(u, id) ==
    LET question_id == CallbackId(id)
        deleted == delete_question_by_id(questions_file, question_id)
    IN
    /\ DispatcherFree
    /\ id \in offered[u].confirm_ids
    /\ IF get_question_by_id(questions_file, question_id) = None
       THEN /\ questions_file' = Touch(questions_file)
            /\ last' = Handled("button_callback", u, "not_found")
       ELSE /\ questions_file' = deleted.file
            /\ last' = Handled("button_callback", u, IF deleted.ok THEN "deleted" ELSE "failed")
    /\ UNCHANGED <<users_file, user_data, add_conv, clone_conv, edit_conv, offered, sent, task>>

\* button_callback, data remove_<id>.
remove_select(u, id) ==
    LET question_id == CallbackId(id) IN
    /\ DispatcherFree
    /\ id \in offered[u].remove_ids
    /\ questions_file' = Touch(questions_file)
    /\ IF get_question_by_id(questions_file, question_id) = None
       THEN /\ last' = Handled("button_callback", u, "not_found")
            /\ UNCHANGED offered
       ELSE /\ offered' = OfferIds(u, "confirm_ids", {question_id})
            /\ last' = Handled("button_callback", u, "confirm")
    /\ UNCHANGED <<users_file, user_data, add_conv, clone_conv, edit_conv, sent, task>>

\* button_callback, data edit_<id>, outside state EDIT_SELECT of edit_quiz_conv.
edit_select(u, id) ==
    LET question_id == CallbackId(id)
        question == get_question_by_id(questions_file, question_id)
    IN
    /\ DispatcherFree
    /\ edit_conv[u] # EDIT_SELECT
    /\ id \in offered[u].edit_ids
    /\ questions_file' = Touch(questions_file)
    /\ IF question = None
       THEN /\ last' = Handled("button_callback", u, "not_found")
            /\ UNCHANGED <<user_data, offered>>
       ELSE /\ user_data' = [user_data EXCEPT ![u].edit_question = question]
            /\ IF Subscriptable(Val(question).options, Val(question).answer)
               THEN /\ offered' = OfferMenu(u, "edit_menu")
                    /\ last' = Handled("button_callback", u, "menu")
               ELSE /\ last' = Handled("button_callback", u, "exception")
                    /\ UNCHANGED offered
    /\ UNCHANGED <<users_file, add_conv, clone_conv, edit_conv, sent, task>>

\* button_callback, data edit_text or edit_options: edit_question_text and
\* edit_options only send a prompt; the state they return is dropped.
edit_field_prompt(u) ==
    /\ DispatcherFree
    /\ edit_conv[u] # EDIT_SELECT
    /\ offered[u].edit_menu
    /\ last' = Handled("button_callback", u,
                       IF user_data[u].edit_question = None THEN "no_edit" ELSE "prompt")
    /\ UNCHANGED <<questions_file, users_file, user_data, add_conv, clone_conv, edit_conv,
                   offered, sent, task>>

\* button_callback, data edit_answer: edit_answer shows the keyboard
\* editanswer_<i> of the question being edited.
edit_answer(u) ==
    LET question == user_data[u].edit_question IN
    /\ DispatcherFree
    /\ edit_conv[u] # EDIT_SELECT
    /\ offered[u].edit_menu
    /\ IF question = None
       THEN /\ last' = Handled("edit_answer", u, "no_edit")
            /\ UNCHANGED offered
       ELSE IF ~Subscriptable(Val(question).options, Val(question).answer)
       THEN /\ last' = Handled("edit_answer", u, "exception")
            /\ UNCHANGED offered
       ELSE /\ offered' = Offer(u, "editanswer", Len(Val(question).options))
            /\ last' = Handled("edit_answer", u, "prompt")
    /\ UNCHANGED <<questions_file, users_file, user_data, add_conv, clone_conv, edit_conv,
                   sent, task>>

\* A variant of ReplaceFirst that replaces every record whose id is question's.
ReplaceEvery(questions, question) ==
    [i \in DOMAIN questions |->
        IF questions[i].id = question.id THEN question ELSE questions[i]]

\* A variant of ReplaceFirst that appends the question when no record has its id.
ReplaceFirstOrAppend(questions, question) ==
    IF \E i \in DOMAIN questions : questions[i].id = question.id
    THEN [i \in DOMAIN questions |->
             IF /\ questions[i].id = question.id
                /\ \A j \in 1..(i - 1) : questions[j].id # question.id
             THEN question ELSE questions[i]]
    ELSE Append(questions, question)

\* questions with the first record whose id is question's replaced by question.
RECURSIVE ReplaceFirst(_, _)
ReplaceFirst(questions, question) ==
    IF questions = <<>> THEN <<>>
    ELSE IF Head(questions).id = question.id THEN <<question>> \o Tail(questions)
    ELSE <<Head(questions)>> \o ReplaceFirst(Tail(questions), question)

\* button_callback, data editanswer_<answer_idx>.
editanswer(u, answer_idx) ==
    LET ud == user_data[u]
        question == [Val(ud.edit_question) EXCEPT !.answer = answer_idx]
    IN
    /\ DispatcherFree
    /\ answer_idx \in 0..(offered[u].editanswer - 1)
    /\ IF ud.edit_question = None
       THEN /\ last' = Handled("button_callback", u, "no_edit")
            /\ UNCHANGED <<questions_file, user_data>>
       ELSE /\ questions_file' =
                   save_questions(ReplaceFirst(load_questions(questions_file), question))
            /\ IF Subscriptable(question.options, answer_idx)
               THEN /\ user_data' = [user_data EXCEPT ![u] = EmptyUserData]
                    /\ last' = Handled("button_callback", u, "updated")
               ELSE /\ user_data' = [user_data EXCEPT ![u].edit_question = Some(question)]
                    /\ last' = Handled("button_callback", u, "exception")
    /\ UNCHANGED <<users_file, add_conv, clone_conv, edit_conv, offered, sent, task>>


----------------------------------------------------------------------------
(* Delivery and grading: play, schedule_next_question, handle_poll_answer. *)

\* context.bot.send_poll to the chat: the poll is appended to what the chat
\* has received.
send_poll(log, chat_id, question) == [log EXCEPT ![chat_id] = Append(@, question)]

\* A variant of RestOf that drops one question more.
RestOfSkipping(questions) ==
    IF Len(questions) > 1 THEN Tail(Tail(questions)) ELSE <<>>

\* questions[1:], the questions still to be sent once the first has been.
RestOf(questions) == Tail(questions)

\* /play [id]
play(u, arg) ==
    LET questions == load_questions(questions_file)
        matching_questions == Matching(questions, IntVal(Val(arg)))
        cleared == [sent EXCEPT ![u] = <<>>]
    IN
    /\ DispatcherFree
    /\ questions_file' = Touch(questions_file)
    /\ IF questions = <<>>
       THEN /\ last' = Handled("play", u, "no_questions")
            /\ UNCHANGED <<user_data, sent, task>>
       ELSE IF arg = None
       THEN \* random.choice, send_poll, then NameError: load_stats is not defined
            /\ \E i \in 1..Len(questions) : sent' = send_poll(cleared, u, questions[i])
            /\ last' = Handled("play", u, "exception")
            /\ UNCHANGED <<user_data, task>>
       ELSE IF ~IntOk(Val(arg))
       THEN /\ last' = Handled("play", u, "invalid_id")
            /\ UNCHANGED <<user_data, sent, task>>
       ELSE IF matching_questions = <<>>
       THEN /\ last' = Handled("play", u, "not_found")
            /\ UNCHANGED <<user_data, sent, task>>
       ELSE /\ sent' = send_poll(cleared, u, matching_questions[1])
            /\ IF Len(matching_questions) > 1
               THEN /\ user_data' = [user_data EXCEPT
                           ![u].marathon_questions = RestOf(matching_questions),
                           ![u].marathon_chat_id = Some(u)]
                    /\ task' = Some([user |-> u, pc |-> "sleep",
                                     requested_id |-> IntVal(Val(arg))])
                    /\ last' = Handled("play", u, "marathon")
               ELSE /\ last' = Handled("play", u, "single")
                    /\ UNCHANGED <<user_data, task>>
    /\ UNCHANGED <<users_file, add_conv, clone_conv, edit_conv, offered>>

\* A variant of Awake in which the suspended handler is never resumed.
AwakeNever(t) == FALSE

\* A variant of Awake that does not wait for the sleep.
AwakeAtOnce(t) == t.pc \in {"sleep", "awake"}

\* Has the await asyncio.sleep(15) of the suspended handler completed?
Awake(t) == t.pc = "awake"

\* await asyncio.sleep(15) of schedule_next_question completes.
sleep_elapsed ==
    /\ task # None
    /\ Val(task).pc = "sleep"
    /\ task' = Some([Val(task) EXCEPT !.pc = "awake"])
    /\ UNCHANGED <<questions_file, users_file, user_data, add_conv, clone_conv, edit_conv,
                   offered, sent, last>>

\* schedule_next_question after its sleep; it calls itself while questions
\* remain, and play returns when it returns.
schedule_next_question ==
    LET u == Val(task).user
        marathon_questions == user_data[u].marathon_questions
        chat_id == Val(user_data[u].marathon_chat_id)
    IN
    /\ task # None
    /\ Awake(Val(task))
    /\ IF marathon_questions = <<>>
       THEN /\ task' = None
            /\ last' = Handled("schedule_next_question", u, "nothing_left")
            /\ UNCHANGED <<user_data, sent>>
       ELSE /\ sent' = send_poll(sent, chat_id, marathon_questions[1])
            /\ user_data' = [user_data EXCEPT ![u].marathon_questions = RestOf(marathon_questions)]
            /\ task' = IF RestOf(marathon_questions) # <<>>
                       THEN Some([Val(task) EXCEPT !.pc = "sleep"])
                       ELSE None
            /\ last' = Handled("schedule_next_question", u, "sent")
    /\ UNCHANGED <<questions_file, users_file, add_conv, clone_conv, edit_conv, offered>>

\* Indices a poll answer can carry.
OptionIds == { <<>>, <<0>>, <<1>>, <<2>> }

\* A poll answer of the user handed to handle_poll_answer.
handle_poll_answer(u, option_ids) ==
    LET selected_option == IF option_ids # <<>> THEN Some(option_ids[1]) ELSE None
        correct_option == user_data[u].quiz_correct_answer
        is_correct == selected_option = correct_option
    IN
    /\ DispatcherFree
    /\ IF users_file[UserKey(u)] = None THEN TRUE
       ELSE Val(users_file[UserKey(u)]).total < MaxAnswers
    /\ users_file' = update_user_stats(users_file, u, UserName(u), is_correct)
    /\ last' = Handled("handle_poll_answer", u, IF is_correct THEN "correct" ELSE "wrong")
    /\ UNCHANGED <<questions_file, user_data, add_conv, clone_conv, edit_conv, offered,
                   sent, task>>

----------------------------------------------------------------------------
(* The question store on a file system whose accesses can fail.            *)

\* The file system while one update is handled: read tells whether opening
\* and parsing data/questions.json succeeds, write whether writing it does.
\* A write that fails raises at open() and leaves the file as it was.
IOs == [read : BOOLEAN, write : BOOLEAN]

\* save_questions catches the exception of a failed write and returns False.
save_questions_io(file, questions, io) ==
    IF io.write THEN [file |-> save_questions(questions), ok |-> TRUE]
    ELSE [file |-> file, ok |-> FALSE]

\* load_questions: a missing file gives the samples, which are saved; an
\* exception while an existing file is read is caught and gives [].
load_questions_io(file, io) ==
    IF file = None
    THEN [questions |-> SampleQuestions,
          file |-> save_questions_io(file, SampleQuestions, io).file]
    ELSE IF io.read THEN [questions |-> file[1], file |-> file]
    ELSE [questions |-> <<>>, file |-> file]

get_next_question_id_io(file, io) ==
    LET questions == load_questions_io(file, io).questions IN
        IF questions = <<>> THEN 1 ELSE MaxId(questions) + 1

get_question_by_id_io(file, question_id, io) ==
    FirstWithId(load_questions_io(file, io).questions, question_id)

\* delete_question_by_id does not look at what save_questions returns.
delete_question_by_id_io(file, question_id, io) ==
    LET loaded == load_questions_io(file, io)
        updated_questions == SelectQuestions(loaded.questions, question_id, FALSE)
    IN  IF Len(updated_questions) < Len(loaded.questions)
        THEN [file |-> save_questions_io(loaded.file, updated_questions, io).file,
              ok |-> TRUE]
        ELSE [file |-> loaded.file, ok |-> FALSE]

\* The file after questions = load_questions(); questions.append(new_question);
\* save_questions(questions), which follow the load_questions() of
\* get_next_question_id().
InsertWith(file, io, new_question) ==
    LET loaded == load_questions_io(load_questions_io(file, io).file, io) IN
        save_questions_io(loaded.file, Append(loaded.questions, new_question), io).file

\* get_answer on the failing file system.
get_answer_io(u, answer_idx, io) ==
    LET in_add == add_conv[u] = ANSWER
        ud == user_data[u]
        question_id == get_next_question_id_io(questions_file, io)
        new_question ==
            [ id |-> question_id,
              question |-> ud.quiz_question,
              options |-> ud.quiz_options,
              answer |-> answer_idx,
              category |-> "User Created" ]
    IN
    /\ DispatcherFree
    /\ in_add \/ clone_conv[u] = ANSWER
    /\ answer_idx \in 0..(offered[u].answer - 1)
    /\ Len(load_questions(questions_file)) < MaxStore
    /\ questions_file' = InsertWith(questions_file, io, new_question)
    /\ IF Subscriptable(ud.quiz_options, answer_idx)
       THEN /\ user_data' = [user_data EXCEPT ![u] = EmptyUserData]
            /\ add_conv' = IF in_add THEN [add_conv EXCEPT ![u] = END] ELSE add_conv
            /\ clone_conv' = IF in_add THEN clone_conv ELSE [clone_conv EXCEPT ![u] = END]
            /\ last' = Handled("get_answer", u, "created")
       ELSE /\ last' = Handled("get_answer", u, "exception")
            /\ UNCHANGED <<user_data, add_conv, clone_conv>>
    /\ UNCHANGED <<users_file, edit_conv, offered, sent, task>>

\* handle_poll_id_selection on the failing file system.
handle_poll_id_selection_io(u, choice, io) ==
    LET ud == user_data[u]
        question_id == get_next_question_id_io(questions_file, io)
        new_question == PollQuestion(Val(ud.poll_to_quiz), question_id)
    IN
    /\ DispatcherFree
    /\ offered[u].pollid
    /\ IF ud.poll_to_quiz = None
       THEN /\ last' = Handled("handle_poll_id_selection", u, "no_poll_data")
            /\ UNCHANGED <<questions_file, user_data>>
       ELSE IF choice = "custom"
       THEN /\ user_data' = [user_data EXCEPT ![u].awaiting_poll_id = TRUE]
            /\ last' = Handled("handle_poll_id_selection", u, "ask_custom_id")
            /\ UNCHANGED questions_file
       ELSE IF Val(ud.poll_to_quiz).selected_answer = None
       THEN /\ questions_file' = load_questions_io(questions_file, io).file
            /\ last' = Handled("handle_poll_id_selection", u, "exception")
            /\ UNCHANGED user_data
       ELSE /\ Len(load_questions(questions_file)) < MaxStore
            /\ questions_file' = InsertWith(questions_file, io, new_question)
            /\ user_data' = [user_data EXCEPT ![u].poll_to_quiz = None]
            /\ last' = Handled("handle_poll_id_selection", u, "imported")
    /\ UNCHANGED <<users_file, add_conv, clone_conv, edit_conv, offered, sent, task>>

\* button_callback, data confirm_remove_<id>, on the failing file system.
confirm_remove_io(u, id, io) ==
    LET question_id == CallbackId(id)
        found == load_questions_io(questions_file, io)
        deleted == delete_question_by_id_io(found.file, question_id, io)
    IN
    /\ DispatcherFree
    /\ id \in offered[u].confirm_ids
    /\ IF FirstWithId(found.questions, question_id) = None
       THEN /\ questions_file' = found.file
            /\ last' = Handled("button_callback", u, "not_found")
       ELSE /\ questions_file' = deleted.file
            /\ last' = Handled("button_callback", u, IF deleted.ok THEN "deleted" ELSE "failed")
    /\ UNCHANGED <<users_file, user_data, add_conv, clone_conv, edit_conv, offered, sent, task>>

----------------------------------------------------------------------------------------------------------------------------------------
(* Specifications.                                                         *)

\* Option indices a button can carry: keyboards have at most three buttons.
OptionIndices == 0..2

\* The users who write questions.
Authors == {101}

\* The create flow and the clone flow of one user, which share get_answer,
\* cancel and the draft keys quiz_question and quiz_options.
Creating(u) ==
    \/ add_quiz(u)
    \/ \E text \in QuestionTexts : get_question(u, text)
    \/ \E text \in OptionTexts : get_options(u, text)
    \/ \E i \in OptionIndices : get_answer(u, i)
    \/ cancel(u)
    \/ \E arg \in {None, Some(UrlText[1])} : clone_quiz(u, arg)
    \/ \E text \in CloneTexts : clone_url_text(u, text)

\* The poll import of one user.
Importing(u) ==
    \/ \E text \in IdTexts : handle_message_text(u, text)
    \/ \E poll \in Polls : handle_message_poll(u, poll)
    \/ \E i \in OptionIndices : handle_poll_to_quiz(u, i)
    \/ \E choice \in {"auto", "custom"} : handle_poll_id_selection(u, choice)

\* Edit and remove of one user.
Editing(u) ==
    \/ \E arg \in IdArgs : edit_quiz(u, arg)
    \/ edit_select_lambda(u)
    \/ \E arg \in IdArgs : remove_quiz(u, arg)
    \/ cancel_remove(u)
    \/ \E id \in offered[u].confirm_ids : confirm_remove(u, id)
    \/ \E id \in offered[u].remove_ids : remove_select(u, id)
    \/ \E id \in offered[u].edit_ids : edit_select(u, id)
    \/ edit_field_prompt(u)
    \/ edit_answer(u)
    \/ \E i \in OptionIndices : editanswer(u, i)

\* Spec: writing questions by the create flow, the clone flow and the poll
\* import, in any interleaving.
Next == \E u \in Authors : Creating(u) \/ Importing(u)

Spec == Init /\ [][Next]_vars

\* SpecCreate: the create flow and the clone flow alone.
NextCreate == \E u \in Authors : Creating(u)

SpecCreate == Init /\ [][NextCreate]_vars

\* Removal of questions by one user.
Removing(u) ==
    \/ \E arg \in IdArgs : remove_quiz(u, arg)
    \/ cancel_remove(u)
    \/ \E id \in offered[u].confirm_ids : confirm_remove(u, id)
    \/ \E id \in offered[u].remove_ids : remove_select(u, id)

\* The forwarded poll with two options.
SmallPoll == [question |-> <<L("P")>>, options |-> <<L("X"), L("Y")>>]

\* SpecStore: questions enter the store by the import of one poll, with an
\* allocated or a custom id, and those with id 1 or 2 leave it by /remove <id>.
NextStore ==
    \E u \in Authors :
        \/ handle_message_poll(u, SmallPoll)
        \/ \E i \in {0, 1} : handle_poll_to_quiz(u, i)
        \/ \E choice \in {"auto", "custom"} : handle_poll_id_selection(u, choice)
        \/ \E text \in IdTexts : handle_message_text(u, text)
        \/ \E arg \in {Some(L("1")), Some(L("2"))} : remove_quiz(u, arg)
        \/ \E id \in offered[u].confirm_ids : confirm_remove(u, id)

SpecStore == Init /\ [][NextStore]_vars

\* SpecEdit: one user edits the correct answer of questions, leaves the edit
\* conversation with /cancel, removes questions and imports polls under the
\* next free id.
NextEdit ==
    \E u \in Authors :
        \/ \E arg \in {None, Some(L("1"))} : edit_quiz(u, arg)
        \/ edit_select_lambda(u)
        \/ cancel(u)
        \/ \E id \in offered[u].edit_ids : edit_select(u, id)
        \/ edit_field_prompt(u)
        \/ edit_answer(u)
        \/ \E i \in {0, 1} : editanswer(u, i)
        \/ remove_quiz(u, Some(L("1")))
        \/ \E id \in offered[u].confirm_ids : confirm_remove(u, id)
        \/ handle_message_poll(u, SmallPoll)
        \/ handle_poll_to_quiz(u, 1)
        \/ handle_poll_id_selection(u, "auto")

SpecEdit == Init /\ [][NextEdit]_vars

\* SpecEditText: as SpecEdit, and the user sends the texts that answer the
\* prompts for new options.
NextEditText ==
    \/ NextEdit
    \/ \E u \in Authors : \E text \in OptionTexts : handle_message_text(u, text)

SpecEditText == Init /\ [][NextEditText]_vars

\* A store in which three questions share id 1: the samples and two polls
\* imported with the custom id 1.
MarathonStore ==
    SampleQuestions \o
    << PollQuestion([question |-> <<L("P")>>, options |-> <<L("X"), L("Y")>>,
                     selected_answer |-> Some(0)], 1),
       PollQuestion([question |-> <<L("P")>>, options |-> <<L("X"), L("Y"), L("Z")>>,
                     selected_answer |-> Some(2)], 1) >>

\* data/questions.json outlives the process: the bot starts with no file or
\* with the file an earlier run left.
InitPlay ==
    /\ questions_file \in {None, save_questions(MarathonStore)}
    /\ users_file = [k \in UserKeys |-> None]
    /\ user_data = [u \in Users |-> EmptyUserData]
    /\ add_conv = [u \in Users |-> END]
    /\ clone_conv = [u \in Users |-> END]
    /\ edit_conv = [u \in Users |-> END]
    /\ offered = [u \in Users |-> NoButtons]
    /\ sent = [u \in Users |-> <<>>]
    /\ task = None
    /\ last = Handled("start", 0, "ok")

\* SpecPlay: every user plays and answers polls, an author starts and cancels
\* the create flow, and the timer of a marathon runs.
NextPlay ==
    \/ \E u \in Users :
          \/ \E arg \in IdArgs : play(u, arg)
          \/ \E option_ids \in OptionIds : handle_poll_answer(u, option_ids)
    \/ \E u \in Authors :
          \/ add_quiz(u)
          \/ cancel(u)
    \/ sleep_elapsed
    \/ schedule_next_question

SpecPlay == InitPlay /\ [][NextPlay]_vars

\* SpecPlayFair: SpecPlay on an event loop that runs what is ready: a sleep
\* that was started completes, and the handler that awaited it is resumed.
SpecPlayFair ==
    /\ SpecPlay
    /\ WF_vars(sleep_elapsed)
    /\ WF_vars(schedule_next_question)

\* The arguments of a command that names a question: a number and a text that
\* is no number.
NumberOrNot == {Some(L("1")), Some(L("x"))}

\* SpecIds: one user names questions by id, to play, edit and remove them and
\* to import polls, with texts that are numbers and texts that are not.
NextIds ==
    \/ \E u \in Authors :
          \/ handle_message_poll(u, SmallPoll)
          \/ handle_poll_to_quiz(u, 1)
          \/ \E choice \in {"auto", "custom"} : handle_poll_id_selection(u, choice)
          \/ \E text \in IdTexts : handle_message_text(u, text)
          \/ \E arg \in NumberOrNot : play(u, arg)
          \/ \E arg \in NumberOrNot : edit_quiz(u, arg)
          \/ cancel(u)
          \/ \E arg \in NumberOrNot : remove_quiz(u, arg)
          \/ \E id \in offered[u].confirm_ids : confirm_remove(u, id)
    \/ sleep_elapsed
    \/ schedule_next_question

SpecIds == Init /\ [][NextIds]_vars

\* SpecTwo: each of the two users creates a question, cancels, plays and
\* imports a poll under an id of their own, while the timer of a marathon runs.
NextTwo ==
    \/ \E u \in Users :
          \/ add_quiz(u)
          \/ get_question(u, <<L("Q")>>)
          \/ get_options(u, <<L("A"), L("B")>>)
          \/ get_answer(u, 1)
          \/ cancel(u)
          \/ play(u, Some(L("1")))
          \/ handle_message_poll(u, SmallPoll)
          \/ handle_poll_to_quiz(u, 1)
          \/ handle_poll_id_selection(u, "custom")
          \/ handle_message_text(u, <<L("x")>>)
    \/ sleep_elapsed
    \/ schedule_next_question

SpecTwo == InitPlay /\ [][NextTwo]_vars

\* SpecRemove: one user removes the samples by /remove with and without an id,
\* keeps or confirms, and between these creates a question and imports a poll.
NextRemove ==
    \E u \in Authors :
        \/ \E arg \in {None, Some(L("1"))} : remove_quiz(u, arg)
        \/ cancel_remove(u)
        \/ \E id \in offered[u].confirm_ids : confirm_remove(u, id)
        \/ \E id \in offered[u].remove_ids \cap {1, 2} : remove_select(u, id)
        \/ add_quiz(u)
        \/ get_question(u, <<L("Q")>>)
        \/ get_options(u, <<L("A"), L("B")>>)
        \/ get_answer(u, 1)
        \/ handle_message_poll(u, SmallPoll)
        \/ handle_poll_to_quiz(u, 1)
        \/ handle_poll_id_selection(u, "auto")

SpecRemove == Init /\ [][NextRemove]_vars

\* SpecAbsent: one user edits, removes and plays questions by ids of which
\* some are in the store and some, such as 9 or a removed one, are not.
IdsOrAbsent == {Some(L("1")), Some(L("2")), Some(L("9"))}

NextAbsent ==
    \/ \E u \in Authors :
          \/ \E arg \in IdsOrAbsent \cup {None} : edit_quiz(u, arg)
          \/ \E id \in offered[u].edit_ids : edit_select(u, id)
          \/ cancel(u)
          \/ \E arg \in IdsOrAbsent : remove_quiz(u, arg)
          \/ \E id \in offered[u].confirm_ids : confirm_remove(u, id)
          \/ \E arg \in IdsOrAbsent : play(u, arg)
    \/ sleep_elapsed
    \/ schedule_next_question

SpecAbsent == InitPlay /\ [][NextAbsent]_vars

\* SpecFaulty: one user creates questions, imports a poll and removes
\* questions while reading and writing the questions file can fail.
NextFaulty ==
    \E u \in Authors :
        \/ add_quiz(u)
        \/ get_question(u, <<L("Q")>>)
        \/ get_options(u, <<L("A"), L("B")>>)
        \/ \E i \in {0, 1} : \E io \in IOs : get_answer_io(u, i, io)
        \/ handle_message_poll(u, SmallPoll)
        \/ handle_poll_to_quiz(u, 1)
        \/ \E io \in IOs : handle_poll_id_selection_io(u, "auto", io)
        \/ \E arg \in {Some(L("1")), Some(L("2"))} : remove_quiz(u, arg)
        \/ \E id \in offered[u].confirm_ids : \E io \in IOs : confirm_remove_io(u, id, io)

SpecFaulty == Init /\ [][NextFaulty]_vars

\* SpecShared: two users work on the one store: user 101 edits the answer of
\* a question while user 102 removes questions and imports polls.
Editors == {101}
Others == {102}

NextShared ==
    \/ \E u \in Editors :
          \/ edit_quiz(u, None)
          \/ cancel(u)
          \/ \E id \in offered[u].edit_ids : edit_select(u, id)
          \/ edit_answer(u)
          \/ \E i \in {0, 1} : editanswer(u, i)
    \/ \E u \in Others :
          \/ remove_quiz(u, Some(L("1")))
          \/ \E id \in offered[u].confirm_ids : confirm_remove(u, id)
          \/ handle_message_poll(u, SmallPoll)
          \/ handle_poll_to_quiz(u, 1)
          \/ \E choice \in {"auto", "custom"} : handle_poll_id_selection(u, choice)
          \/ \E text \in IdTexts : handle_message_text(u, text)

SpecShared == Init /\ [][NextShared]_vars

\* SpecAuthors: one user completes create flows and removes questions 1 and
\* 3, the other imports polls with allocated ids and with the typed id 1, in
\* every order of their updates.
NextAuthors ==
    \/ \E u \in Editors :
          \/ add_quiz(u)
          \/ get_question(u, <<L("Q")>>)
          \/ get_options(u, <<L("A"), L("B")>>)
          \/ get_answer(u, 1)
          \/ \E arg \in {Some(L("1")), Some(L("3"))} : remove_quiz(u, arg)
          \/ \E id \in offered[u].confirm_ids : confirm_remove(u, id)
    \/ \E u \in Others :
          \/ handle_message_poll(u, SmallPoll)
          \/ handle_poll_to_quiz(u, 1)
          \/ \E choice \in {"auto", "custom"} : handle_poll_id_selection(u, choice)
          \/ handle_message_text(u, <<<<" ", "1">>>>)

SpecAuthors == Init /\ [][NextAuthors]_vars

\* SpecExtract: parse_telegram_quiz_url applied to each link, environment and
\* content the network serves; last holds what will be served until the
\* function is called, and what was served with the outcome afterwards.
InitExtract ==
    /\ questions_file = None
    /\ users_file = [k \in UserKeys |-> None]
    /\ user_data = [u \in Users |-> EmptyUserData]
    /\ add_conv = [u \in Users |-> END]
    /\ clone_conv = [u \in Users |-> END]
    /\ edit_conv = [u \in Users |-> END]
    /\ offered = [u \in Users |-> NoButtons]
    /\ sent = [u \in Users |-> <<>>]
    /\ task = None
    /\ \E in \in ExtractionInputs : last = Handled("served", 0, in)

\* A call of parse_telegram_quiz_url with the link of user u.
parse_quiz_url(u) ==
    /\ last.handler = "served"
    /\ last' = Handled("parse_telegram_quiz_url", u,
                       [served |-> last.result, outcome |-> quiz_extraction(last.result)])
    /\ UNCHANGED <<questions_file, users_file, user_data, add_conv, clone_conv, edit_conv,
                   offered, sent, task>>

NextExtract == \E u \in Authors : parse_quiz_url(u)

SpecExtract == InitExtract /\ [][NextExtract]_vars

----------------------------------------------------------------------------
(* Properties of the question store.                                       *)

AnswerWithinOptions(q) ==
    q.options # None /\ q.answer >= 0 /\ q.answer < Len(q.options)

\* C1: in every reachable state, whatever create, clone and poll import
\* actions were taken and whatever offered button was pressed, every question
\* of the store has an answer index within its options:
\* 0 <= answer < len(options).
C1_StoredAnswersWithinOptions ==
    \A i \in 1..Len(load_questions(questions_file)) :
        AnswerWithinOptions(load_questions(questions_file)[i])

\* The questions of the store, in the order load_questions returns them.
Stored == load_questions(questions_file)

\* The questions of the store after the step.
StoredNext == load_questions(questions_file')

\* At least 2 options and an answer index within them.
ValidRecord(q) == q.question # None /\ Len(q.options) >= 2 /\ AnswerWithinOptions(q)

\* The step inserts one question: the store after it is the store before it
\* with one record appended.
InsertStep == Len(StoredNext) = Len(Stored) + 1 /\ SubSeq(StoredNext, 1, Len(Stored)) = Stored

\* The record an InsertStep has appended.
InsertedRecord == StoredNext[Len(StoredNext)]

\* C11: after a valid question q is inserted, whatever the store held before,
\* get_question_by_id(q.id) returns a record equal to q.
C11_InsertThenGetById ==
    [][(InsertStep /\ ValidRecord(InsertedRecord))
          => get_question_by_id(questions_file', InsertedRecord.id) = Some(InsertedRecord)]_vars

\* C11, amended: after a valid question q is inserted into a store that held
\* no question with the id of q, get_question_by_id(q.id) returns a record
\* equal to q.
C11_InsertFreshIdThenGetById ==
    [][(/\ InsertStep
        /\ ValidRecord(InsertedRecord)
        /\ InsertedRecord.id \notin IdsOf(Stored))
          => get_question_by_id(questions_file', InsertedRecord.id) = Some(InsertedRecord)]_vars

\* A poll has been imported with the custom id 1 into a store that held no
\* question with id 1, and get_question_by_id(1) returns it.
C11_Witness ==
    \E u \in Users :
        /\ last = Handled("handle_message", u, "imported")
        /\ Len(Matching(Stored, 1)) = 1
        /\ Stored[Len(Stored)].id = 1
        /\ get_question_by_id(questions_file, 1) = Some(Stored[Len(Stored)])

\* The largest element of a non-empty set of integers.
Largest(S) == CHOOSE m \in S : \A x \in S : x <= m

\* C12: get_next_question_id returns 1 when the store is empty and otherwise
\* the largest id in the store plus 1, whatever the store holds, duplicate ids
\* and gaps included.
C12_NextIdIsMaxPlusOne ==
    get_next_question_id(questions_file) =
        IF Stored = <<>> THEN 1 ELSE Largest(IdsOf(Stored)) + 1

\* The store holds two questions with id 1, none with id 2 and one with id 3,
\* the last question is not the one with the largest id, and
\* get_next_question_id returns 4.
C12_Witness ==
    /\ Len(Matching(Stored, 1)) = 2
    /\ Matching(Stored, 2) = <<>>
    /\ Len(Matching(Stored, 3)) = 1
    /\ Stored[Len(Stored)].id = 1
    /\ get_next_question_id(questions_file) = 4

\* C13: get_next_question_id has no effect on the store; a step that inserts
\* no question leaves its value as it was; after an insert it returns one more
\* than the largest id then in the store.
C13_NextIdStableWithoutInsert ==
    [][/\ load_questions(Touch(questions_file)) = Stored
       /\ get_next_question_id(Touch(questions_file)) = get_next_question_id(questions_file)
       /\ ~InsertStep
             => get_next_question_id(questions_file') = get_next_question_id(questions_file)
       /\ InsertStep
             => get_next_question_id(questions_file') = Largest(IdsOf(StoredNext)) + 1]_vars

\* C13, amended: get_next_question_id has no effect on the store; a step that
\* leaves the questions of the store as they were, inserting and deleting
\* none, leaves its value as it was; after an insert it returns one more than
\* the largest id then in the store.
C13_NextIdStableWithoutChange ==
    [][/\ load_questions(Touch(questions_file)) = Stored
       /\ get_next_question_id(Touch(questions_file)) = get_next_question_id(questions_file)
       /\ StoredNext = Stored
             => get_next_question_id(questions_file') = get_next_question_id(questions_file)
       /\ InsertStep
             => get_next_question_id(questions_file') = Largest(IdsOf(StoredNext)) + 1]_vars

\* handle_poll_to_quiz has called get_next_question_id on a store of three
\* questions, which are still the three questions.
C13_Witness ==
    \E u \in Users :
        /\ last = Handled("handle_poll_to_quiz", u, "ask_id")
        /\ Len(Stored) = 3
        /\ get_next_question_id(questions_file) = Largest(IdsOf(Stored)) + 1

\* The number of places of a sequence that hold q.
Occurrences(questions, q) == Cardinality({i \in DOMAIN questions : questions[i] = q})

\* The places of a sequence that hold a question with the id.
PlacesOf(questions, question_id) == {i \in DOMAIN questions : questions[i].id = question_id}

\* The ids a deletion is tried with: each id of the store and one id that no
\* question of the store has.
DeleteIds == IdsOf(Stored) \cup {get_next_question_id(questions_file)}

\* C14: delete_question_by_id(id) removes every question with the id and no
\* other, returns true exactly when some question had the id, leaves
\* get_question_by_id(id) without a result, and shortens the store by the
\* number of questions that had the id.
C14_DeleteRemovesAllMatching ==
    \A question_id \in DeleteIds :
        LET deleted == delete_question_by_id(questions_file, question_id)
            after == load_questions(deleted.file)
        IN  /\ PlacesOf(after, question_id) = {}
            /\ \A i \in DOMAIN Stored :
                   Stored[i].id # question_id
                       => Occurrences(after, Stored[i]) = Occurrences(Stored, Stored[i])
            /\ deleted.ok <=> PlacesOf(Stored, question_id) # {}
            /\ get_question_by_id(deleted.file, question_id) = None
            /\ Len(after) = Len(Stored) - Cardinality(PlacesOf(Stored, question_id))

\* Two questions of the store have id 1 and a third has another id, the user
\* has the confirmation button of id 1, and the deletion leaves the third.
C14_Witness ==
    \E u \in Users :
        /\ Cardinality(PlacesOf(Stored, 1)) = 2
        /\ Len(Stored) = 3
        /\ 1 \in offered[u].confirm_ids
        /\ delete_question_by_id(questions_file, 1).ok
        /\ Len(load_questions(delete_question_by_id(questions_file, 1).file)) = 1

\* The user has chosen a question to edit and no question of the store has
\* its id any more.
EditedIdAbsent(u) ==
    /\ user_data[u].edit_question # None
    /\ Val(user_data[u].edit_question).id \notin IdsOf(Stored)

\* C15: the completion of an edit whose question is no longer in the store
\* leaves the questions of the store as they were.
C15_EditOfAbsentIdIsNoOp ==
    [][\A u \in Users : \A i \in OptionIndices :
           EditedIdAbsent(u) /\ editanswer(u, i) => StoredNext = Stored]_vars

\* The user has the keyboard of answers of a question of id 1 that has been
\* removed since, can press it, and the store holds other questions.
C15_Witness ==
    \E u \in Users :
        /\ EditedIdAbsent(u)
        /\ Val(user_data[u].edit_question).id = 1
        /\ offered[u].editanswer > 0
        /\ edit_conv[u] # EDIT_SELECT
        /\ DispatcherFree
        /\ Len(Stored) = 2

\* Every question of the store after the step was in the store before it, and
\* the questions that remain are in the order they were in.
KeptInOrder ==
    \E f \in [DOMAIN StoredNext -> DOMAIN Stored] :
        /\ \A i \in DOMAIN StoredNext : StoredNext[i] = Stored[f[i]]
        /\ \A i, j \in DOMAIN StoredNext : i < j => f[i] < f[j]

\* Every place of the store holds after the step the question it held before
\* it, up to the correct answer.
SamePlaces ==
    /\ Len(StoredNext) = Len(Stored)
    /\ \A i \in DOMAIN Stored : [StoredNext[i] EXCEPT !.answer = 0] = [Stored[i] EXCEPT !.answer = 0]

\* C16: the store keeps the order of insertion: a step that adds a question
\* appends it after the others, a step that removes questions leaves the
\* remaining ones in their order, and any other step, an edit among them,
\* leaves every question in its place.
C16_StoreKeepsInsertionOrder ==
    [][/\ Len(StoredNext) > Len(Stored) => InsertStep
       /\ Len(StoredNext) < Len(Stored) => KeptInOrder
       /\ Len(StoredNext) = Len(Stored) => SamePlaces]_vars

\* Sample 1 has been removed, sample 2 has had its answer changed and is now
\* first, and an imported poll follows it.
C16_Witness ==
    /\ Len(Stored) = 2
    /\ Stored[1] = [SampleQuestions[2] EXCEPT !.answer = 0]
    /\ Stored[2].category = "Converted Poll"
    /\ \E u \in Users : last = Handled("button_callback", u, "updated")

\* C36: the completion of an edit changes one record at most: the first
\* record of the store that has the id of the edited question takes the edited
\* question, and every other record, the later records of that id among them,
\* stays as it was.
C36_EditChangesOneRecord ==
    [][\A u \in Users : \A i \in OptionIndices :
          (user_data[u].edit_question # None /\ editanswer(u, i))
              => LET question == Val(user_data[u].edit_question)
                     places == PlacesOf(Stored, question.id)
                 IN  /\ Len(StoredNext) = Len(Stored)
                     /\ \A k \in DOMAIN Stored :
                           IF k \in places /\ \A j \in places : k <= j
                           THEN StoredNext[k] = [question EXCEPT !.answer = i]
                           ELSE StoredNext[k] = Stored[k]]_vars

\* The answer of question 1 has been changed while a second record, an
\* imported poll, had the id 1: the first record has the new answer and the
\* poll is as it was imported.
C36_Witness ==
    \E u \in Users :
        /\ last = Handled("button_callback", u, "updated")
        /\ Len(Stored) = 3
        /\ Stored[1].id = 1 /\ Stored[1].category = "Geography" /\ Stored[1].answer = 0
        /\ Stored[3].id = 1 /\ Stored[3].category = "Converted Poll"
        /\ Stored[3].question = SmallPoll.question /\ Stored[3].answer = 1

\* The user has pressed edit_text or edit_options in the menu of the question
\* being edited and has been asked to send the new text or the new options.
AskedForNewText(u) ==
    /\ last = Handled("button_callback", u, "prompt")
    /\ user_data[u].edit_question # None

\* C35: a text sent in answer to the prompt for new options is rejected, and
\* the store left as it is, when it has fewer than 2 non-blank lines; else the
\* options of the question being edited become the non-blank lines, stripped,
\* and its answer is an index of them.
C35_EditOptionsReplacesOptions ==
    [][\A u \in Users : \A text \in OptionTexts :
          (AskedForNewText(u) /\ handle_message_text(u, text))
              => LET question_id == Val(user_data[u].edit_question).id
                     new_options == ParseOptions(text)
                     edited == get_question_by_id(questions_file', question_id)
                 IN  IF Len(new_options) < 2 THEN StoredNext = Stored
                     ELSE get_question_by_id(questions_file, question_id) # None
                              => /\ Val(edited).options = new_options
                                 /\ Val(edited).answer \in 0..(Len(new_options) - 1)]_vars

C33_AllocatedIdIsFresh ==
    [][/\ \A u \in Users :
             (/\ Stored' # Stored
              /\ \/ \E i \in OptionIndices : get_answer(u, i)
                 \/ handle_poll_id_selection(u, "auto"))
                => /\ InsertStep
                   /\ InsertedRecord.id \notin IdsOf(Stored)
                   /\ InsertedRecord.id = get_next_question_id(questions_file)
       /\ \A k \in DOMAIN Stored :
             Stored[k].category = "User Created"
                => \A j \in 1..(k - 1) : Stored[j].id # Stored[k].id]_vars

\* One user has completed a create flow after the other imported a poll with
\* an allocated id: the two questions have the ids 3 and 4.
C33_Witness ==
    /\ last = Handled("get_answer", 101, "created")
    /\ Len(Stored) = 3
    /\ Stored[2].category = "Converted Poll" /\ Stored[2].id = 3
    /\ Stored[3].category = "User Created" /\ Stored[3].id = 4

----------------------------------------------------------------------------
(* Properties of the question store on a failing file system.              *)

\* The questions that data/questions.json holds; none while it is missing.
Durable(file) == IF file = None THEN <<>> ELSE file[1]

\* C27: an insert (completion of a create, import of a poll) during which
\* reading the question store fails leaves the file as it was and does not
\* report success.
C27_FailedReadAbortsInsert ==
    [][\A u \in Users : \A io \in IOs :
          (questions_file # None /\ ~io.read)
              => /\ \A i \in OptionIndices :
                       get_answer_io(u, i, io)
                           => /\ questions_file' = questions_file
                              /\ last'.result # "created"
                 /\ handle_poll_id_selection_io(u, "auto", io)
                       => /\ questions_file' = questions_file
                          /\ last'.result # "imported"]_vars

\* C28: when the write fails, a removal is reported as done only if the
\* question is absent from the file afterwards, and a create is reported as
\* done only if the file holds the new question afterwards.
C28_FailedWriteIsReported ==
    [][\A u \in Users : \A io \in IOs :
          /\ \A id \in offered[u].confirm_ids :
                (confirm_remove_io(u, id, io) /\ last'.result = "deleted")
                    => CallbackId(id) \notin IdsOf(Durable(questions_file'))
          /\ \A i \in OptionIndices :
                (get_answer_io(u, i, io) /\ last'.result = "created")
                    => \E k \in DOMAIN Durable(questions_file') :
                          LET q == Durable(questions_file')[k] IN
                              /\ q.question = user_data[u].quiz_question
                              /\ q.options = user_data[u].quiz_options
                              /\ q.answer = i
                              /\ q.category = "User Created"]_vars

----------------------------------------------------------------------------
(* Properties of references to ids that the store does not hold.           *)

\* The argument of a command is a number that is the id of no stored question.
AbsentId(arg) == arg # None /\ IntOk(Val(arg)) /\ IntVal(Val(arg)) \notin IdsOf(Stored)

\* The step leaves the questions of the store as they are, delivers no poll,
\* starts no marathon, records nothing in the session of the user, offers no
\* button and leaves every conversation of the user where it is.
NothingDone(u) ==
    /\ StoredNext = Stored
    /\ sent' = sent
    /\ task' = task
    /\ user_data' = user_data
    /\ offered' = offered
    /\ add_conv' = add_conv /\ clone_conv' = clone_conv /\ edit_conv' = edit_conv

\* Every reference to an id that the store does not hold is answered with
\* "not found" and has no effect; /play <id> may answer with one of the
\* replies in play_replies.
AbsentIdReported(play_replies) ==
    \A u \in Users :
        /\ \A arg \in IdArgs \cup IdsOrAbsent :
              AbsentId(arg)
                  => /\ edit_quiz(u, arg)
                           => /\ last'.result = "not_found"
                              /\ edit_conv'[u] = END
                              /\ user_data'[u].edit_question = user_data[u].edit_question
                              /\ NothingDone(u)
                     /\ remove_quiz(u, arg)
                           => last'.result = "not_found" /\ NothingDone(u)
                     /\ play(u, arg)
                           => last'.result \in play_replies /\ NothingDone(u)
        /\ \A id \in offered[u].confirm_ids \cup offered[u].edit_ids :
              CallbackId(id) \notin IdsOf(Stored)
                  => /\ confirm_remove(u, id)
                           => last'.result = "not_found" /\ NothingDone(u)
                     /\ edit_select(u, id)
                           => last'.result = "not_found" /\ NothingDone(u)

\* C29: a reference by /edit, /remove, a confirmation of a removal or
\* /play <id> to an id that the store does not hold is answered with "not
\* found" and ends there: the questions of the store are unchanged, no poll is
\* delivered, no marathon is started and no edit target is recorded.
C29_AbsentIdReportsNotFound == [][AbsentIdReported({"not_found"})]_vars

\* C29, amended: as above, but /play <id> on a store without questions is
\* answered with "no questions available".
C29_AbsentIdHasNoEffect ==
    [][/\ AbsentIdReported({"not_found", "no_questions"})
       /\ \A u \in Users : \A arg \in IdArgs \cup IdsOrAbsent :
             (AbsentId(arg) /\ play(u, arg) /\ last'.result = "no_questions")
                 => Stored = <<>>]_vars

\* /play 9 has been answered with "not found" by a store that holds
\* questions: nothing was delivered.
C29_Witness ==
    \E u \in Users :
        /\ last = Handled("play", u, "not_found")
        /\ Stored # <<>>
        /\ 9 \notin IdsOf(Stored)
        /\ sent[u] = <<>>
        /\ task = None

----------------------------------------------------------------------------
(* Properties of the poll import.                                          *)

\* The user has a poll in hand and has selected its correct option.
OptionSelected(u) ==
    /\ user_data[u].poll_to_quiz # None
    /\ Val(user_data[u].poll_to_quiz).selected_answer # None

\* The step is the choice of an id by the user: the button of the automatic
\* id, or a text after the button of the custom id.
IdChosen(u) ==
    \/ last' = Handled("handle_poll_id_selection", u, "imported")
    \/ /\ last' = Handled("handle_message", u, "imported")
       /\ user_data[u].awaiting_poll_id

\* C17: the selection of the correct option of a poll inserts nothing; a
\* question is inserted only by the choice of an id, automatic or a number
\* typed by the user, made after an option was selected, and it carries the
\* poll's question and options, the selected option as its answer and the
\* category "Converted Poll".
C17_ImportInsertsAtIdChoice ==
    [][/\ \A u \in Users : \A i \in OptionIndices :
              handle_poll_to_quiz(u, i) => StoredNext = Stored
       /\ Len(StoredNext) > Len(Stored)
              => /\ InsertStep
                 /\ \E u \in Users :
                        /\ OptionSelected(u)
                        /\ IdChosen(u)
                        /\ InsertedRecord.question = Val(user_data[u].poll_to_quiz).question
                        /\ InsertedRecord.options = Val(user_data[u].poll_to_quiz).options
                        /\ InsertedRecord.answer =
                               Val(Val(user_data[u].poll_to_quiz).selected_answer)
                        /\ InsertedRecord.category = "Converted Poll"]_vars

\* A poll whose second option was selected has been imported under a typed
\* id and is the last question of the store.
C17_Witness ==
    \E u \in Users :
        /\ last = Handled("handle_message", u, "imported")
        /\ Len(Stored) = 3
        /\ Stored[3] = [ id |-> 1, question |-> SmallPoll.question,
                         options |-> SmallPoll.options, answer |-> 1,
                         category |-> "Converted Poll" ]
        /\ user_data[u].poll_to_quiz = None

\* The user types text as the id of a poll whose option is selected, and a
\* question of the store has that id already.
TypedIdExists(u, text) ==
    /\ user_data[u].awaiting_poll_id
    /\ OptionSelected(u)
    /\ TextIntOk(text)
    /\ TextIntVal(text) \in IdsOf(Stored)

\* C18: a poll imported under an id typed by the user is inserted even when a
\* question of the store has that id: the questions of the store stay as they
\* were, the poll is appended under the typed id, and the store then holds
\* more than one question of that id.
C18_CustomIdMayDuplicate ==
    [][\A u \in Users : \A text \in IdTexts :
           TypedIdExists(u, text) /\ handle_message_text(u, text)
               => /\ InsertStep
                  /\ InsertedRecord.id = TextIntVal(text)
                  /\ Cardinality(PlacesOf(StoredNext, TextIntVal(text))) > 1]_vars

\* The samples are as they were and a poll imported under the typed id 1 has
\* just been appended: two questions have id 1.
C18_Witness ==
    \E u \in Users :
        /\ last = Handled("handle_message", u, "imported")
        /\ SubSeq(Stored, 1, 2) = SampleQuestions
        /\ PlacesOf(Stored, 1) = {1, 3}

\* The argument of a command is given and is no number.
NotANumber(arg) == arg # None /\ ~IntOk(Val(arg))

----------------------------------------------------------------------------
(* Properties of the extraction.                                           *)

Extracted == last.handler = "parse_telegram_quiz_url"

\* The place of a method in the order of priority.
Priority(method) == CHOOSE k \in DOMAIN Methods : Methods[k] = method

\* What a method yields by itself on what is served.
Yield(method, in) ==
    CASE method = Methods[1] ->
             IF in.api.kind = "error" THEN None ELSE pyrogram_method(in.url, in.api)
      [] method = Methods[2] ->
             IF in.page.status = "error" THEN None ELSE poll_format(in.page)
      [] method = Methods[3] -> embedded_view(in.embed)
      [] method = Methods[4] -> general_message_content(in.page)

\* A result with a question text that is not empty and two options or more.
ValidResult(result) ==
    /\ result # None
    /\ Val(result).question # <<<<>>>>
    /\ Len(Val(result).options) >= 2

\* The methods were entered in the order of priority.
MethodsInOrder ==
    LET tried == last.result.outcome.tried IN
        \A i, j \in DOMAIN tried : i < j => Priority(tried[i]) < Priority(tried[j])

\* No method was entered after one that yielded a result, and a returned
\* result is the one the last method entered yielded.
ShortCircuit ==
    LET tried == last.result.outcome.tried
        returned == last.result.outcome.returned
    IN  /\ \A i \in 1..(Len(tried) - 1) : Yield(tried[i], last.result.served) = None
        /\ returned # None
              => tried # <<>> /\ returned = Yield(tried[Len(tried)], last.result.served)
        /\ returned = None
              => \A i \in DOMAIN tried : Yield(tried[i], last.result.served) = None

\* C20: parse_telegram_quiz_url enters its methods in a fixed order of
\* priority, enters none after one has yielded a result, and returns the
\* result of the first method that yields one, which has a question text that
\* is not empty and two options or more.
C20_FirstValidMethodWins ==
    Extracted
        => /\ MethodsInOrder
           /\ ShortCircuit
           /\ last.result.outcome.returned # None
                 => ValidResult(last.result.outcome.returned)

\* The methods that apply to what is served, in the order of priority: the
\* API needs the credentials, the embedded view a link that looks like a quiz,
\* and none applies to a text that names no Telegram host.
Applicable(in) ==
    IF in.url = <<>> \/ ~HasTme(in.url) THEN <<>>
    ELSE (IF in.credentials THEN <<Methods[1]>> ELSE <<>>)
         \o <<Methods[2]>>
         \o (IF LooksLikeQuizLink(in.url) /\ ChannelMatch(in.url) THEN <<Methods[3]>> ELSE <<>>)
         \o <<Methods[4]>>

\* C22: a method that fails, by an exception or on a response it cannot read,
\* does not end the extraction: every method that applies is entered, in the
\* order of priority, until one yields a result.
C22_FailureDoesNotAbortChain ==
    Extracted
        => LET tried == last.result.outcome.tried
               applicable == Applicable(last.result.served)
           IN  \A k \in DOMAIN applicable :
                   \/ k <= Len(tried) /\ tried[k] = applicable[k]
                   \/ \E j \in 1..(k - 1) :
                          /\ j <= Len(tried)
                          /\ Yield(tried[j], last.result.served) # None

\* C25: the completion of an edit of the answer of a question by one user
\* loses no change another user has made since the question was selected:
\* every place of the store holds the question it held, up to the answer.
C25_EditLosesNoUpdate ==
    [][\A u \in Users : \A i \in OptionIndices :
           (user_data[u].edit_question # None /\ editanswer(u, i)) => SamePlaces]_vars

----------------------------------------------------------------------------
(* Properties of the session.                                              *)

\* The session of a user is Idle: no conversation handler has a conversation
\* for the user and no poll import is under way.
SessionIdle(add, clone, edit, ud) ==
    /\ add = END
    /\ clone = END
    /\ edit = END
    /\ ud.poll_to_quiz = None
    /\ ~ud.awaiting_poll_id

\* No part of a draft is left in the user's context.
DraftDiscarded(ud) ==
    /\ ud.quiz_question = None
    /\ ud.quiz_options = None
    /\ ud.edit_question = None
    /\ ud.poll_to_quiz = None
    /\ ~ud.awaiting_poll_id

\* C7: /cancel sent by a user whose session is not Idle leaves the session
\* Idle and the draft discarded.
C7_CancelReturnsToIdle ==
    [][\A u \in Users :
          (/\ ~SessionIdle(add_conv[u], clone_conv[u], edit_conv[u], user_data[u])
           /\ cancel(u))
          => /\ SessionIdle(add_conv'[u], clone_conv'[u], edit_conv'[u], user_data'[u])
             /\ DraftDiscarded(user_data'[u])]_vars

\* The conversation of the user waits for a text.
ExpectsText(u) ==
    add_conv[u] \in {QUESTION, OPTIONS} \/ clone_conv[u] = CLONE_URL

\* The conversation of the user waits for a press of an answer button.
ExpectsButton(u) ==
    add_conv[u] = ANSWER \/ clone_conv[u] = ANSWER

\* A step in which the user presses a button.
ButtonPress(u) ==
    \/ \E i \in OptionIndices : get_answer(u, i)
    \/ \E i \in OptionIndices : handle_poll_to_quiz(u, i)
    \/ \E choice \in {"auto", "custom"} : handle_poll_id_selection(u, choice)

\* A step in which the user sends a text.
TextMessage(u) ==
    \/ \E text \in QuestionTexts : get_question(u, text)
    \/ \E text \in OptionTexts : get_options(u, text)
    \/ \E text \in CloneTexts : clone_url_text(u, text)
    \/ \E text \in IdTexts : handle_message_text(u, text)

\* The input is answered by asking again, and the conversation states, the
\* draft and the questions of the store are as before.
Reprompted(u) ==
    /\ last'.user = u
    /\ last'.result = "reprompt"
    /\ add_conv'[u] = add_conv[u]
    /\ clone_conv'[u] = clone_conv[u]
    /\ edit_conv'[u] = edit_conv[u]
    /\ user_data'[u] = user_data[u]
    /\ load_questions(questions_file') = load_questions(questions_file)

\* C9: a button press in a state that waits for a text, and a text in a state
\* that waits for a button press, is rejected with a re-prompt and changes
\* neither the session state, nor the draft, nor the store.
C9_WrongKindRejected ==
    [][\A u \in Users :
          /\ (ExpectsText(u) /\ ~ExpectsButton(u) /\ ButtonPress(u)) => Reprompted(u)
          /\ (ExpectsButton(u) /\ ~ExpectsText(u) /\ TextMessage(u)) => Reprompted(u)]_vars

----------------------------------------------------------------------------
(* Properties of the clone flow.                                           *)

\* The extraction has just failed for the link of the user, who has been asked
\* for the question text.
AskedForQuestionText(u) == last = Handled("handle_quiz_url", u, "manual")

\* C21: when the extraction fails the link is kept in the draft, and the next
\* text of the user is taken as the question text: the draft holds it and the
\* session waits for the options.
C21_FailedExtractionFallsBackToManual ==
    [][\A u \in Users :
          /\ handle_quiz_url(u, UrlText) /\ AskedForQuestionText(u)'
                => user_data'[u].clone_url = UrlText
          /\ AskedForQuestionText(u) /\ TextMessage(u)
                => /\ user_data'[u].quiz_question # None
                   /\ user_data'[u].clone_url = user_data[u].clone_url
                   /\ add_conv'[u] = OPTIONS \/ clone_conv'[u] = OPTIONS]_vars

\* What parse_telegram_quiz_url returns on the links, environments and
\* contents of ExtractionInputs.
ExtractionResults == {quiz_extraction(in).returned : in \in ExtractionInputs}

\* C23: every result of an extraction has the answer 0; the extraction itself
\* stores nothing; a question enters the store of the clone flow only by a
\* press of an answer button, and its answer is the index of that button.
C23_ClonedAnswerIsSelected ==
    [][/\ \A result \in ExtractionResults \cup parse_telegram_quiz_url(UrlText) :
              result # None => Val(result).answer = 0
       /\ \A u \in Users :
              handle_quiz_url(u, UrlText) => StoredNext = Stored
       /\ Stored # StoredNext
              => \E u \in Users : \E i \in OptionIndices :
                     /\ get_answer(u, i)
                     /\ InsertStep
                     /\ InsertedRecord.answer = i]_vars

\* The question of an extraction has been stored from the clone flow with
\* the answer 1, the button the user pressed.
C23_Witness ==
    \E u \in Users :
        /\ last = Handled("get_answer", u, "created")
        /\ Stored[Len(Stored)].question = ExtractedQuiz.question
        /\ Stored[Len(Stored)].options = ExtractedQuiz.options
        /\ Stored[Len(Stored)].answer = 1

----------------------------------------------------------------------------
(* Properties of the create flow.                                          *)

\* The number of lines of a text that hold a character other than whitespace.
NonBlankLines(text) ==
    Cardinality({i \in 1..Len(text) : \E j \in 1..Len(text[i]) : text[i][j] \notin Whitespace})

\* C8: in state OPTIONS a text with fewer than 2 non-blank lines is rejected:
\* the conversation stays in OPTIONS, quiz_options is left as it was, the store
\* is unchanged and the user is told that at least 2 options are needed.
C8_TooFewOptionsRejected ==
    [][\A u \in Users : \A text \in OptionTexts :
          (NonBlankLines(text) < 2 /\ get_options(u, text))
          => /\ add_conv'[u] = OPTIONS
             /\ user_data'[u].quiz_options = user_data[u].quiz_options
             /\ questions_file' = questions_file
             /\ last' = Handled("get_options", u, "too_few_options")]_vars

\* A text with one option has been rejected in state OPTIONS.
C8_Witness ==
    \E u \in Users :
        /\ last = Handled("get_options", u, "too_few_options")
        /\ add_conv[u] = OPTIONS
        /\ user_data[u].quiz_options = None

\* C10: a press of an answer button that completes the create flow, with the
\* draft holding question text t and options o, at least 2, and the button
\* carrying index i, appends exactly one record to the store, with the id
\* get_next_question_id gives at that moment, question t, options o, answer i
\* and category "User Created"; get_question_by_id of that id then returns
\* that record.
C10_CreateAppendsRecord ==
    [][\A u \in Users : \A i \in OptionIndices :
          (/\ add_conv[u] = ANSWER
           /\ user_data[u].quiz_question # None
           /\ Len(user_data[u].quiz_options) >= 2
           /\ get_answer(u, i))
          => LET record == [ id |-> get_next_question_id(questions_file),
                             question |-> user_data[u].quiz_question,
                             options |-> user_data[u].quiz_options,
                             answer |-> i,
                             category |-> "User Created" ]
             IN  /\ load_questions(questions_file') =
                        Append(load_questions(questions_file), record)
                 /\ get_question_by_id(questions_file', record.id) = Some(record)]_vars

\* The create flow has been completed with question Q, options A and B and
\* index 1, and the store holds the record after the samples.
C10_Witness ==
    \E u \in Users :
        /\ last = Handled("get_answer", u, "created")
        /\ Len(load_questions(questions_file)) = 3
        /\ load_questions(questions_file)[3] =
               [ id |-> 3, question |-> <<L("Q")>>, options |-> <<L("A"), L("B")>>,
                 answer |-> 1, category |-> "User Created" ]

----------------------------------------------------------------------------
(* Properties of grading.                                                  *)

\* The counters of a user in data/users.json; both are 0 without a record.
Counters(file, u) ==
    IF file[UserKey(u)] = None
    THEN [correct |-> 0, total |-> 0]
    ELSE [correct |-> Val(file[UserKey(u)]).correct, total |-> Val(file[UserKey(u)]).total]

\* The question delivered last to the chat of u.
LastDelivered(u) == sent[u][Len(sent[u])]

\* C2: when the question delivered last to a user has correct index c, a poll
\* answer of that user selecting s adds exactly 1 to the user's total, and adds
\* 1 to the user's correct count if s = c and 0 otherwise.
C2_GradedAgainstDelivered ==
    [][\A u \in Users : \A s \in OptionIndices :
          (sent[u] # <<>> /\ handle_poll_answer(u, <<s>>))
          => /\ Counters(users_file', u).total = Counters(users_file, u).total + 1
             /\ Counters(users_file', u).correct =
                    Counters(users_file, u).correct
                    + (IF s = LastDelivered(u).answer THEN 1 ELSE 0)]_vars

\* C3: once play has delivered a question to a user, the correct index of the
\* question delivered last is recorded in that user's context, where
\* handle_poll_answer reads it.
C3_CorrectIndexRecorded ==
    \A u \in Users :
        sent[u] # <<>> =>
            user_data[u].quiz_correct_answer = Some(LastDelivered(u).answer)

\* C4: a poll answer of a user to whom no question was delivered, so that no
\* correct index is recorded in the user's context, fails with NoActiveQuiz
\* and leaves data/users.json as it was.
C4_NoActiveQuizLeavesStats ==
    [][\A u \in Users : \A option_ids \in OptionIds :
          (/\ sent[u] = <<>>
           /\ user_data[u].quiz_correct_answer = None
           /\ handle_poll_answer(u, option_ids))
          => /\ users_file' = users_file
             /\ last' = Handled("handle_poll_answer", u, "no_active_quiz")]_vars

----------------------------------------------------------------------------
(* Properties of the marathon.                                             *)

IsPrefix(s, t) == Len(s) <= Len(t) /\ SubSeq(t, 1, Len(s)) = s

\* The step is one of schedule_next_question in the handler run for u.
MarathonStep(u) == task # None /\ Val(task).user = u /\ schedule_next_question

\* C5: play with an id that N >= 1 questions of the store have delivers the
\* first of them at once and one more by each step of schedule_next_question,
\* in the order of the store; the run ends exactly when all N are delivered,
\* and nothing else delivers a poll to the chat.
C5_MarathonDeliversAllInOrder ==
    [][\A u \in Users :
          /\ \A arg \in IdArgs \ {None} :
                (/\ last' = Handled("play", u, last'.result)
                 /\ IntOk(Val(arg))
                 /\ play(u, arg))
                => LET all == Matching(load_questions(questions_file'), IntVal(Val(arg)))
                   IN  all # <<>> =>
                         /\ sent'[u] = <<all[1]>>
                         /\ (task' = None) <=> (Len(all) = 1)
          /\ MarathonStep(u)
                => LET all == Matching(load_questions(questions_file'),
                                       Val(task).requested_id)
                   IN  /\ Len(sent'[u]) = Len(sent[u]) + 1
                       /\ IsPrefix(sent'[u], all)
                       /\ (task' = None) <=> (sent'[u] = all)
          /\ sent'[u] # sent[u]
                => (\E arg \in IdArgs : play(u, arg)) \/ MarathonStep(u)]_vars

\* A marathon of three questions has run to its end.
C5_Witness ==
    \E u \in Users :
        /\ task = None
        /\ last = Handled("schedule_next_question", u, "sent")
        /\ Len(sent[u]) = 3
        /\ sent[u] = Matching(load_questions(questions_file), 1)

\* C38: on an event loop that completes the sleeps and resumes the handler, a
\* marathon that was started ends: every delivery of schedule_next_question
\* takes exactly one question off the remaining questions of the user, the
\* run is over exactly when none remain, a started run always leads to a
\* state with no run and no remaining question, and while no run is
\* suspended no step is one of sleep_elapsed or schedule_next_question.
C38_MarathonTerminates ==
    /\ [][\A u \in Users :
             MarathonStep(u)
                 => /\ user_data[u].marathon_questions # <<>>
                    /\ Len(user_data'[u].marathon_questions)
                           = Len(user_data[u].marathon_questions) - 1
                    /\ Len(sent'[u]) = Len(sent[u]) + 1
                    /\ (task' = None)
                           <=> (user_data'[u].marathon_questions = <<>>)]_vars
    /\ [][task = None => ~ sleep_elapsed /\ ~ schedule_next_question]_vars
    /\ \A u \in Users :
          (task # None /\ Val(task).user = u)
              ~> (task = None /\ user_data[u].marathon_questions = <<>>)

\* A marathon of three questions is over: both remaining questions were
\* delivered, none remains and no handler is suspended.
C38_Witness ==
    \E u \in Users :
        /\ last = Handled("schedule_next_question", u, "sent")
        /\ task = None
        /\ user_data[u].marathon_questions = <<>>
        /\ user_data[u].marathon_chat_id = Some(u)
        /\ Len(sent[u]) = 3

Session(u) == <<add_conv[u], clone_conv[u], edit_conv[u], user_data[u]>>

\* The user whose update or whose marathon a step serves: the user of the
\* running marathon while the handler has not returned, else the sender of
\* the update that the step handles.
Actor == IF task # None THEN Val(task).user ELSE last'.user

\* C26: a step changes the session state, the draft fields, the
\* awaiting_poll_id flag and the marathon queue of no user but the one it serves.
C26_SessionsArePerUser ==
    [][\A b \in Users : Session(b)' # Session(b) => Actor = b]_vars

\* One user has cancelled a flow while the other holds a draft question, or
\* waits to type a poll id, in a session of their own.
C26_Witness ==
    \E a \in Users : \E b \in Users \ {a} :
        /\ last = Handled("cancel", a, "cancelled")
        /\ user_data[a] = EmptyUserData
        /\ add_conv[b] = OPTIONS
        /\ user_data[b].quiz_question # None

\* Every record of data/users.json has 0 <= correct <= total.
CountsInRange(file) ==
    \A key \in DOMAIN file :
        file[key] # None
            => /\ 0 <= Val(file[key]).correct
               /\ Val(file[key]).correct <= Val(file[key]).total

RunOf(u) == sent[u] \o user_data[u].marathon_questions

\* C31: while the marathon of a user runs, no step (the commands, button
\* presses and /cancel of that user arrive, but wait for the handler to
\* return) takes a question out of the run but its delivery, and the run ends
\* only when its queue is empty: every remaining question is delivered.
C31_MarathonIsNotCancelled ==
    [][\A u \in Users :
          (task # None /\ Val(task).user = u)
              => /\ RunOf(u)' = RunOf(u)
                 /\ RunOf(u) = Matching(Stored, Val(task).requested_id)
                 /\ IsPrefix(sent[u], sent'[u])
                 /\ task' = None => user_data'[u].marathon_questions = <<>>
                 /\ ~ cancel(u)
                 /\ \A arg \in IdArgs : ~ play(u, arg)]_vars

\* The user has started the create flow, run a marathon of three questions to
\* its end and cancelled the flow: the /cancel, whenever it was sent, was
\* handled after the last delivery.
C31_Witness ==
    \E u \in Users :
        /\ last = Handled("cancel", u, "cancelled")
        /\ task = None
        /\ Len(sent[u]) = 3
        /\ sent[u] = Matching(Stored, 1)
        /\ user_data[u].marathon_questions = <<>>

\* A marathon is suspended in the delay between two of its questions.
InDelay == task # None /\ Val(task).pc = "sleep"

\* C24: while the marathon of one user is suspended in its delay, an update
\* of another user can be handled before the delay ends.
C24_DelayDoesNotBlockOthers ==
    InDelay
        => \A u \in Users \ {Val(task).user} :
               ENABLED (\/ \E arg \in IdArgs : play(u, arg)
                        \/ \E option_ids \in OptionIds : handle_poll_answer(u, option_ids))

\* C32: while the marathon of a user is suspended in its delay, a second
\* /play <id> of the same user is taken up, so that two delivery chains of the
\* user are active together.
C32_SecondRunStartsDuringFirst ==
    InDelay
        => ENABLED (\E arg \in IdArgs \ {None} : play(Val(task).user, arg))

====
